---------------------------- MODULE Spec2Model ----------------------------
(***************************************************************************)
(* The AR scene/session core of services/ar_service.py: the model library, *)
(* the scenes with their placed models, the session manager and the        *)
(* service facade, as a state machine.                                     *)
(*                                                                         *)
(* Python strings whose characters matter (names, categories, keywords,    *)
(* key elements, queries) are read through CharsOf as sequences of         *)
(* one-character strings.  Floats of the seed list are written in          *)
(* hundredths (2.0 m -> 200).  datetime.utcnow() is a clock read that      *)
(* returns a value not below the one read before.                          *)
(***************************************************************************)
EXTENDS Integers, Sequences, FiniteSets, TLC

(***************************************************************************)
(* Bounds of the model.                                                    *)
(***************************************************************************)
\* longest search query drawn
MaxQueryLen == 4
\* longest key_elements list drawn
MaxElems == 6

(***************************************************************************)
(* Strings.                                                                *)
(***************************************************************************)
UpperChars ==
    <<"A", "B", "C", "D", "E", "F", "G", "H", "I", "J", "K", "L", "M",
      "N", "O", "P", "Q", "R", "S", "T", "U", "V", "W", "X", "Y", "Z">>

LowerChars ==
    <<"a", "b", "c", "d", "e", "f", "g", "h", "i", "j", "k", "l", "m",
      "n", "o", "p", "q", "r", "s", "t", "u", "v", "w", "x", "y", "z">>

\* the characters of the string literals the model uses
StringTable ==
       ("Modern Sofa" :> <<"M", "o", "d", "e", "r", "n", " ", "S", "o", "f", "a">>)
    @@ ("Budget Friendly Sofa" :> <<"B", "u", "d", "g", "e", "t", " ", "F", "r", "i", "e", "n", "d", "l", "y", " ", "S", "o", "f", "a">>)
    @@ ("Sofa Combination" :> <<"S", "o", "f", "a", " ", "C", "o", "m", "b", "i", "n", "a", "t", "i", "o", "n">>)
    @@ ("Classic Sofa" :> <<"C", "l", "a", "s", "s", "i", "c", " ", "S", "o", "f", "a">>)
    @@ ("Antique Table" :> <<"A", "n", "t", "i", "q", "u", "e", " ", "T", "a", "b", "l", "e">>)
    @@ ("Folding Table" :> <<"F", "o", "l", "d", "i", "n", "g", " ", "T", "a", "b", "l", "e">>)
    @@ ("Antique Wooden Desk" :> <<"A", "n", "t", "i", "q", "u", "e", " ", "W", "o", "o", "d", "e", "n", " ", "D", "e", "s", "k">>)
    @@ ("Modern Desk Lamp" :> <<"M", "o", "d", "e", "r", "n", " ", "D", "e", "s", "k", " ", "L", "a", "m", "p">>)
    @@ ("Chest of Drawers" :> <<"C", "h", "e", "s", "t", " ", "o", "f", " ", "D", "r", "a", "w", "e", "r", "s">>)
    @@ ("Decorative Mirror" :> <<"D", "e", "c", "o", "r", "a", "t", "i", "v", "e", " ", "M", "i", "r", "r", "o", "r">>)
    @@ ("Kitchen Setup" :> <<"K", "i", "t", "c", "h", "e", "n", " ", "S", "e", "t", "u", "p">>)
    @@ ("seating" :> <<"s", "e", "a", "t", "i", "n", "g">>)
    @@ ("tables" :> <<"t", "a", "b", "l", "e", "s">>)
    @@ ("lighting" :> <<"l", "i", "g", "h", "t", "i", "n", "g">>)
    @@ ("storage" :> <<"s", "t", "o", "r", "a", "g", "e">>)
    @@ ("decor" :> <<"d", "e", "c", "o", "r">>)
    @@ ("sofa" :> <<"s", "o", "f", "a">>)
    @@ ("chair" :> <<"c", "h", "a", "i", "r">>)
    @@ ("coffee table" :> <<"c", "o", "f", "f", "e", "e", " ", "t", "a", "b", "l", "e">>)
    @@ ("bookshelf" :> <<"b", "o", "o", "k", "s", "h", "e", "l", "f">>)
    @@ ("lamp" :> <<"l", "a", "m", "p">>)
    @@ ("table" :> <<"t", "a", "b", "l", "e">>)
    @@ ("desk" :> <<"d", "e", "s", "k">>)
    @@ ("mirror" :> <<"m", "i", "r", "r", "o", "r">>)
    @@ ("kitchen" :> <<"k", "i", "t", "c", "h", "e", "n">>)
    @@ ("Floor Lamp" :> <<"F", "l", "o", "o", "r", " ", "L", "a", "m", "p">>)
    @@ ("Unknown Gadget" :> <<"U", "n", "k", "n", "o", "w", "n", " ", "G", "a", "d", "g", "e", "t">>)
    @@ ("sofa chair" :> <<"s", "o", "f", "a", " ", "c", "h", "a", "i", "r">>)
    @@ ("Coffee Table" :> <<"C", "o", "f", "f", "e", "e", " ", "T", "a", "b", "l", "e">>)
    @@ ("Writing Desk" :> <<"W", "r", "i", "t", "i", "n", "g", " ", "D", "e", "s", "k">>)

CharsOf(s) == StringTable[s]

\* str.lower() on one character and on a string
LowerChar(c) ==
    IF \E i \in 1..Len(UpperChars) : UpperChars[i] = c
    THEN LowerChars[CHOOSE i \in 1..Len(UpperChars) : UpperChars[i] = c]
    ELSE c

lower(cs) == [i \in 1..Len(cs) |-> LowerChar(cs[i])]

\* Python's `sub in text` on strings: sub occurs as a contiguous slice
Contains(text, sub) ==
    \E i \in 0..(Len(text) - Len(sub)) :
        SubSeq(text, i + 1, i + Len(sub)) = sub

(***************************************************************************)
(* AR3DModel and the model library.                                        *)
(***************************************************************************)
DefaultTransform ==
    [position |-> [x |-> 0, y |-> 0, z |-> 0],
     rotation |-> [x |-> 0, y |-> 0, z |-> 0],
     scale    |-> [x |-> 1, y |-> 1, z |-> 1]]

furniture_items == <<
    [id |-> "sofa_morden", name |-> "Modern Sofa", category |-> "seating",
     glb_url |-> "/static/ar_assets/models/sofa_morden.glb",
     dimensions |-> [width |-> 200, height |-> 85, depth |-> 95]],
    [id |-> "sofa_budget_friendly", name |-> "Budget Friendly Sofa", category |-> "seating",
     glb_url |-> "/static/ar_assets/models/sofa_budget_friendly.glb",
     dimensions |-> [width |-> 180, height |-> 80, depth |-> 90]],
    [id |-> "sofa_combination", name |-> "Sofa Combination", category |-> "seating",
     glb_url |-> "/static/ar_assets/models/sofa_combination.glb",
     dimensions |-> [width |-> 220, height |-> 85, depth |-> 100]],
    [id |-> "old_sofa", name |-> "Classic Sofa", category |-> "seating",
     glb_url |-> "/static/ar_assets/models/old_sofa.glb",
     dimensions |-> [width |-> 190, height |-> 82, depth |-> 88]],
    [id |-> "antique_table", name |-> "Antique Table", category |-> "tables",
     glb_url |-> "/static/ar_assets/models/antique_table.glb",
     dimensions |-> [width |-> 150, height |-> 75, depth |-> 90]],
    [id |-> "folding_table", name |-> "Folding Table", category |-> "tables",
     glb_url |-> "/static/ar_assets/models/folding_table.glb",
     dimensions |-> [width |-> 120, height |-> 75, depth |-> 80]],
    [id |-> "antique_wooden_desk", name |-> "Antique Wooden Desk", category |-> "tables",
     glb_url |-> "/static/ar_assets/models/antique_wooden_desk_with_props.glb",
     dimensions |-> [width |-> 160, height |-> 80, depth |-> 90]],
    [id |-> "modern_desk_lamp", name |-> "Modern Desk Lamp", category |-> "lighting",
     glb_url |-> "/static/ar_assets/models/modern_desk_lamp.glb",
     dimensions |-> [width |-> 30, height |-> 60, depth |-> 30]],
    [id |-> "chest_of_drawers", name |-> "Chest of Drawers", category |-> "storage",
     glb_url |-> "/static/ar_assets/models/old_1950s_american_chest_of_drawers.glb",
     dimensions |-> [width |-> 120, height |-> 100, depth |-> 50]],
    [id |-> "mirror_decorative", name |-> "Decorative Mirror", category |-> "decor",
     glb_url |-> "/static/ar_assets/models/mirror.glb",
     dimensions |-> [width |-> 80, height |-> 120, depth |-> 10]],
    [id |-> "kitchen_setup", name |-> "Kitchen Setup", category |-> "decor",
     glb_url |-> "/static/ar_assets/models/kitchen.glb",
     dimensions |-> [width |-> 300, height |-> 250, depth |-> 200]]
>>

\* a dict that keeps insertion order: a sequence of <<key, value>> pairs
DictKeys(d) == [i \in 1..Len(d) |-> d[i][1]]

DictValues(d) == [i \in 1..Len(d) |-> d[i][2]]

DictHas(d, k) == \E i \in 1..Len(d) : d[i][1] = k

DictGet(d, k) == d[CHOOSE i \in 1..Len(d) : d[i][1] = k][2]

DictSet(d, k, v) ==
    IF DictHas(d, k)
    THEN [i \in 1..Len(d) |-> IF d[i][1] = k THEN <<k, v>> ELSE d[i]]
    ELSE Append(d, <<k, v>>)

\* AR3DModel(...) of a seed item; the library's own models keep the
\* transform their constructor gave them
LibraryModel(item) ==
    [model_id   |-> item.id,
     name       |-> item.name,
     category   |-> item.category,
     glb_url    |-> item.glb_url,
     dimensions |-> item.dimensions,
     transform  |-> DefaultTransform]

RECURSIVE InitLibraryFrom(_, _)
InitLibraryFrom(models, i) ==
    IF i > Len(furniture_items) THEN models
    ELSE InitLibraryFrom(
             DictSet(models, furniture_items[i].id,
                     LibraryModel(furniture_items[i])),
             i + 1)

initialize_model_library == InitLibraryFrom(<<>>, 1)

\* ARModelLibrary.models
LibraryModels == initialize_model_library

LibraryHas(model_id) == DictHas(LibraryModels, model_id)

LibraryGet(model_id) == DictGet(LibraryModels, model_id)

get_all_models == DictValues(LibraryModels)

\* search_models looking at the names only
search_models_name_only(query) ==
    LET query_lower == lower(query)
        Hit(m) == Contains(lower(CharsOf(m.name)), query_lower)
    IN  SelectSeq(DictValues(LibraryModels), Hit)

search_models(query) ==
    LET query_lower == lower(query)
        Hit(m) == \/ Contains(lower(CharsOf(m.name)), query_lower)
                  \/ Contains(lower(CharsOf(m.category)), query_lower)
    IN  SelectSeq(DictValues(LibraryModels), Hit)

\* AR3DModel.to_dict of a library model
LibraryToDict(m) == m

service_search_models(query) ==
    LET models == search_models(query)
    IN  [success |-> TRUE,
         models  |-> [i \in 1..Len(models) |-> LibraryToDict(models[i])],
         count   |-> Len(models)]

\* the route /api/ar/models/search
search_ar_models(query) ==
    IF query = <<>>
    THEN [status |-> 400, body |-> [error |-> "Search query required"]]
    ELSE LET result == service_search_models(query)
         IN  [status |-> 200,
              body   |-> [success |-> TRUE,
                          models  |-> result.models,
                          count   |-> result.count]]

(***************************************************************************)
(* Optional values (None or a value) and Python dicts with string keys.    *)
(***************************************************************************)
None == <<>>

Some(v) == <<v>>

IsNone(o) == Len(o) = 0

ValueOf(o) == o[1]

\* dict.update(other): the keys of other are set, the rest is kept
DictUpdate(d, other) ==
    [k \in (DOMAIN d) \cup (DOMAIN other) |->
        IF k \in DOMAIN other THEN other[k] ELSE d[k]]

\* Python truth of an optional dict argument: None and {} are false
Truthy(o) == ~IsNone(o) /\ DOMAIN ValueOf(o) # {}

(***************************************************************************)
(* State.                                                                  *)
(***************************************************************************)
VARIABLES
    active_sessions,  \* ARSessionManager.active_sessions: scene_id -> ARScene
    heap,             \* the transform dicts of the placed models, by address
    now,              \* the last value datetime.utcnow() returned
    issued,           \* the scene ids in existence: those uuid.uuid4()
                      \* returned and those load_session was handed
    op,               \* the name of the last call
    ret,              \* what the last call returned
    pre,              \* the scene a successful add changed and its models before
    saved,            \* the session data the caller keeps from save_session
    pc,               \* the function harness: "session", "start" or "done"
    arg,              \* the function harness: the argument drawn
    res               \* the function harness: the result computed

vars == <<active_sessions, heap, now, issued, op, ret, pre, saved,
          pc, arg, res>>

sessionVars == <<active_sessions, heap, now, issued, op, ret, pre, saved>>

harnessVars == <<pc, arg, res>>

(***************************************************************************)
(* Bounds and input sets of the session machine.                           *)
(***************************************************************************)
\* scene ids are 1..MaxSid
MaxSid == 3
\* scenes registered at a time
MaxSessions == 2
\* placed models held by the registered scenes together
MaxPlaced == 2
\* uuid4().hex[:8] takes the values 1..MaxHex
MaxHex == 2
\* the clock stops at MaxClock
MaxClock == 1

SessionIds == 1..MaxSid

Hexes == 1..MaxHex

RoomTypes == {"Living Room", ""}

\* model ids handed to add_model_to_session; the last is not in the library
AddIds == {"sofa_morden", "no_such_model"}

Keys == {"x", "y", "z"}

\* coordinate values a caller supplies; the constructor's are 0 and 1
CoordValues == {5}

\* the dicts a caller may supply for one transform component
PartialDicts ==
    UNION {[ks -> CoordValues] : ks \in SUBSET Keys}

ComponentArgs == {None} \cup {Some(d) : d \in PartialDicts}

AllUpdateArgs == ComponentArgs \X ComponentArgs \X ComponentArgs

\* the update arguments the session machine draws
SessionUpdateArgs ==
    { <<Some([k \in {"x"} |-> 5]), None, Some([k \in {"y", "z"} |-> 5])>> }

\* design payloads handed to create_session
DesignPayloads ==
    { None,
      Some([k \in {} |-> <<>>]),
      Some([key_elements |-> <<"Unknown Gadget", "Modern Sofa">>]) }

InstanceId(model_id, hex) == <<model_id, hex>>

\* instance ids handed to remove and update
InstanceIds ==
    {InstanceId("sofa_morden", h) : h \in Hexes}
       \cup {InstanceId("modern_desk_lamp", 1)}

(***************************************************************************)
(* The clock.                                                              *)
(***************************************************************************)
Min(a, b) == IF a < b THEN a ELSE b

\* a read of datetime.utcnow() after the value t was read
utcnow(t) == t..Min(t + 1, MaxClock)

(***************************************************************************)
(* uuid.uuid4(): a value no earlier call has returned and no id in use     *)
(* equals.                                                                 *)
(***************************************************************************)
uuid4_reusing_deleted == SessionIds \ (DOMAIN active_sessions)

uuid4 == SessionIds \ issued

(***************************************************************************)
(* AR3DModel.                                                              *)
(***************************************************************************)
\* AR3DModel(...): the object, its transform dict at address addr
AR3DModel(model_id, name, category, glb_url, dimensions, addr) ==
    [model_id   |-> model_id,
     name       |-> name,
     category   |-> category,
     glb_url    |-> glb_url,
     dimensions |-> dimensions,
     transform  |-> addr]

\* AR3DModel.to_dict: dimensions and transform are the model's own objects
model_to_dict(m) == m

update_transform_replacing(transform, position, rotation, scale) ==
    [position |-> IF Truthy(position) THEN ValueOf(position)
                  ELSE transform.position,
     rotation |-> IF Truthy(rotation) THEN ValueOf(rotation)
                  ELSE transform.rotation,
     scale    |-> IF Truthy(scale) THEN ValueOf(scale)
                  ELSE transform.scale]

update_transform(transform, position, rotation, scale) ==
    [position |-> IF Truthy(position)
                  THEN DictUpdate(transform.position, ValueOf(position))
                  ELSE transform.position,
     rotation |-> IF Truthy(rotation)
                  THEN DictUpdate(transform.rotation, ValueOf(rotation))
                  ELSE transform.rotation,
     scale    |-> IF Truthy(scale)
                  THEN DictUpdate(transform.scale, ValueOf(scale))
                  ELSE transform.scale]

(***************************************************************************)
(* ARScene.                                                                *)
(***************************************************************************)
default_lighting ==
    [ambient     |-> [color |-> "#FFFFFF", intensity |-> 60],
     directional |-> [color |-> "#FFFFFF", intensity |-> 80,
                      position |-> [x |-> 5, y |-> 10, z |-> 5]],
     hemisphere  |-> [sky_color |-> "#87CEEB", ground_color |-> "#8B4513",
                      intensity |-> 50]]

default_environment ==
    [background_color |-> "#E5E5E5",
     floor_grid       |-> TRUE,
     floor_color      |-> "#F5F5F5",
     shadows          |-> TRUE,
     fog              |-> [enabled |-> FALSE, color |-> "#FFFFFF",
                           near |-> 10, far |-> 50]]

\* ARScene.__init__ with the two clock reads stored the other way round
ARScene_swapping_stamps(scene_id, room_type, c, u) ==
    [scene_id    |-> scene_id,
     room_type   |-> room_type,
     models      |-> <<>>,
     lighting    |-> default_lighting,
     environment |-> default_environment,
     created_at  |-> u,
     updated_at  |-> c]

\* ARScene(scene_id, room_type), its two clock reads being c and u
ARScene(scene_id, room_type, c, u) ==
    [scene_id    |-> scene_id,
     room_type   |-> room_type,
     models      |-> <<>>,
     lighting    |-> default_lighting,
     environment |-> default_environment,
     created_at  |-> c,
     updated_at  |-> u]

\* add_model putting the model first
add_model_prepending(scene, model, t) ==
    [scene EXCEPT !.models = <<model>> \o @, !.updated_at = t]

\* ARScene.add_model, its clock read being t
add_model(scene, model, t) ==
    [scene EXCEPT !.models = Append(@, model), !.updated_at = t]

\* remove_model keeping the other models in reverse order
models_without_reversing(scene, model_id) ==
    LET Keep(m) == m.model_id # model_id
        kept == SelectSeq(scene.models, Keep)
    IN  [i \in 1..Len(kept) |-> kept[Len(kept) + 1 - i]]

\* the models ARScene.remove_model keeps
models_without(scene, model_id) ==
    LET Keep(m) == m.model_id # model_id
    IN  SelectSeq(scene.models, Keep)

\* whether ARScene.remove_model returns True
remove_model_result(scene, model_id) ==
    Len(models_without(scene, model_id)) < Len(scene.models)

remove_model_touching(scene, model_id, t) ==
    [scene EXCEPT !.models = models_without(scene, model_id),
                  !.updated_at = t]

\* ARScene.remove_model, its clock read (taken only on a removal) being t
remove_model(scene, model_id, t) ==
    IF remove_model_result(scene, model_id)
    THEN [scene EXCEPT !.models = models_without(scene, model_id),
                       !.updated_at = t]
    ELSE [scene EXCEPT !.models = models_without(scene, model_id)]

\* get_model falling back on the scene's first model
get_model_or_first(scene, model_id) ==
    IF \E i \in 1..Len(scene.models) : scene.models[i].model_id = model_id
    THEN CHOOSE i \in 1..Len(scene.models) :
             /\ scene.models[i].model_id = model_id
             /\ \A j \in 1..(i - 1) : scene.models[j].model_id # model_id
    ELSE IF Len(scene.models) > 0 THEN 1 ELSE 0

\* ARScene.get_model: the index of the first model with that id, 0 for None
get_model(scene, model_id) ==
    IF \E i \in 1..Len(scene.models) : scene.models[i].model_id = model_id
    THEN CHOOSE i \in 1..Len(scene.models) :
             /\ scene.models[i].model_id = model_id
             /\ \A j \in 1..(i - 1) : scene.models[j].model_id # model_id
    ELSE 0

\* datetime.isoformat
isoformat(t) == <<"iso", t>>

\* ARScene.to_dict
to_dict(scene) ==
    [scene_id    |-> scene.scene_id,
     room_type   |-> scene.room_type,
     models      |-> [i \in 1..Len(scene.models) |->
                         model_to_dict(scene.models[i])],
     lighting    |-> scene.lighting,
     environment |-> scene.environment,
     created_at  |-> isoformat(scene.created_at),
     updated_at  |-> isoformat(scene.updated_at)]

(***************************************************************************)
(* ARSessionManager._populate_scene_from_design.                           *)
(***************************************************************************)
\* element_to_model, in the order the dict literal lists it
element_to_model ==
    << <<"sofa", "sofa_morden">>,
       <<"chair", "sofa_budget_friendly">>,
       <<"coffee table", "antique_table">>,
       <<"bookshelf", "chest_of_drawers">>,
       <<"lamp", "modern_desk_lamp">>,
       <<"table", "folding_table">>,
       <<"desk", "antique_wooden_desk">>,
       <<"mirror", "mirror_decorative">>,
       <<"kitchen", "kitchen_setup">> >>

\* key_elements[:5]
ItemLimit == 5

\* the key element strings the model draws
ElementPool ==
    {"Modern Sofa", "Floor Lamp", "Unknown Gadget", "sofa chair",
     "Coffee Table", "Writing Desk"}

\* `keyword in element_lower` for every drawn element and table row
KeywordIn ==
    [element \in ElementPool |->
        [k \in 1..Len(element_to_model) |->
            Contains(lower(CharsOf(element)),
                     CharsOf(element_to_model[k][1]))]]

\* design_data.get('key_elements', [])
key_elements_of(design_data) ==
    IF "key_elements" \in DOMAIN design_data
    THEN design_data.key_elements
    ELSE <<>>

\* the slice of key_elements the loop runs over, without the limit
elements_unlimited(key_elements) == key_elements

\* the slice, one element short
elements_short(key_elements) ==
    SubSeq(key_elements, 1, Min(ItemLimit - 1, Len(key_elements)))

elements_examined(key_elements) ==
    SubSeq(key_elements, 1, Min(ItemLimit, Len(key_elements)))

InSeq(s, v) == \E i \in 1..Len(s) : s[i] = v

\* the inner loop without the test on added_models
row_taken_ignoring_added(element, added) ==
    LET hits == {k \in 1..Len(element_to_model) : KeywordIn[element][k]}
    IN  IF hits = {} THEN 0
        ELSE CHOOSE k \in hits : \A j \in hits : k <= j

\* the inner loop: the row of the first keyword that is in the element and
\* whose model is not in added_models (the loop breaks there), 0 if none
row_taken(element, added) ==
    LET hits == {k \in 1..Len(element_to_model) :
                    /\ KeywordIn[element][k]
                    /\ ~InSeq(added, element_to_model[k][2])}
    IN  IF hits = {} THEN 0
        ELSE CHOOSE k \in hits : \A j \in hits : k <= j

\* the outer loop: the library ids whose models are added, in order
RECURSIVE additions_from(_, _, _)
additions_from(elements, i, added) ==
    IF i > Len(elements) THEN added
    ELSE LET k == row_taken(elements[i], added)
         IN  IF k # 0 /\ LibraryHas(element_to_model[k][2])
             THEN additions_from(elements, i + 1,
                                 Append(added, element_to_model[k][2]))
             ELSE additions_from(elements, i + 1, added)

populate_additions(design_data) ==
    additions_from(elements_examined(key_elements_of(design_data)), 1, <<>>)

\* the instance the loop body builds from a library model, hex being
\* uuid4().hex[:8] and addr the address of its new transform dict
new_instance(model_id, hex, addr) ==
    LET model == LibraryGet(model_id)
    IN  AR3DModel(InstanceId(model_id, hex), model.name, model.category,
                  model.glb_url, model.dimensions, addr)

RECURSIVE add_all(_, _, _, _, _, _)
add_all(scene, ids, i, hexes, times, base) ==
    IF i > Len(ids) THEN scene
    ELSE add_all(add_model(scene, new_instance(ids[i], hexes[i], base + i),
                           times[i]),
                 ids, i + 1, hexes, times, base)

\* the scene after _populate_scene_from_design; hexes and times are the
\* uuid suffixes and clock reads of the additions, base the heap's size
populate_scene_from_design(scene, design_data, hexes, times, base) ==
    add_all(scene, populate_additions(design_data), 1, hexes, times, base)

\* n successive clock reads after t
RECURSIVE ClockReads(_, _)
ClockReads(t, n) ==
    IF n = 0 THEN {<<>>}
    ELSE UNION {{<<r>> \o rest : rest \in ClockReads(r, n - 1)} :
                   r \in utcnow(t)}

LastRead(t, times) == IF Len(times) = 0 THEN t ELSE times[Len(times)]

(***************************************************************************)
(* The heap of transform dicts.  Addresses are 1..Len(heap); after every   *)
(* call the dicts no scene and no kept session data refers to are dropped  *)
(* and the rest renumbered in the order scenes and models list them, which *)
(* no operation can observe.                                               *)
(***************************************************************************)
RefsOf(models) == [i \in 1..Len(models) |-> models[i].transform]

RECURSIVE SceneRefs(_, _)
SceneRefs(sessions, sid) ==
    IF sid > MaxSid THEN <<>>
    ELSE (IF sid \in DOMAIN sessions THEN RefsOf(sessions[sid].models)
          ELSE <<>>) \o SceneRefs(sessions, sid + 1)

SavedRefs(sv) == IF IsNone(sv) THEN <<>> ELSE RefsOf(ValueOf(sv).models)

RECURSIVE Dedupe(_, _)
Dedupe(refs, seen) ==
    IF Len(refs) = 0 THEN seen
    ELSE Dedupe(Tail(refs),
                IF InSeq(seen, Head(refs)) THEN seen
                ELSE Append(seen, Head(refs)))

AddrOrder(sessions, sv) == Dedupe(SceneRefs(sessions, 1) \o SavedRefs(sv), <<>>)

Renamed(order, addr) == CHOOSE i \in 1..Len(order) : order[i] = addr

RenameModels(models, order) ==
    [i \in 1..Len(models) |->
        [models[i] EXCEPT !.transform = Renamed(order, @)]]

\* a models list with each transform address replaced by the dict's value
Deref(models, h) ==
    [i \in 1..Len(models) |-> [models[i] EXCEPT !.transform = h[@]]]

DerefScene(scene, h) == [scene EXCEPT !.models = Deref(@, h)]

Commit(sessions, h, sv) ==
    LET order == AddrOrder(sessions, sv)
    IN  /\ active_sessions' =
               [sid \in DOMAIN sessions |->
                   [sessions[sid] EXCEPT !.models = RenameModels(@, order)]]
        /\ heap' = [i \in 1..Len(order) |-> h[order[i]]]
        /\ saved' = IF IsNone(sv) THEN sv
                    ELSE Some([ValueOf(sv) EXCEPT
                                   !.models = RenameModels(@, order)])

(***************************************************************************)
(* ARSessionManager: the calls.                                            *)
(***************************************************************************)
\* a call that fails leaves the manager as it was
Untouched == UNCHANGED <<active_sessions, heap, now, issued, saved>>

\* get_session answering an unknown id with a registered scene
get_session_or_any(session_id) ==
    IF session_id \in DOMAIN active_sessions
    THEN Some(active_sessions[session_id])
    ELSE IF DOMAIN active_sessions # {}
         THEN Some(active_sessions[CHOOSE s \in DOMAIN active_sessions :
                                       TRUE])
         ELSE None

get_session(session_id) ==
    IF session_id \in DOMAIN active_sessions
    THEN Some(active_sessions[session_id])
    ELSE None

CreateSession(room_type, design_data) ==
    /\ Cardinality(DOMAIN active_sessions) < MaxSessions
    /\ Truthy(design_data) =>
          Len(heap) + Len(populate_additions(ValueOf(design_data)))
             <= MaxPlaced
    /\ \E session_id \in uuid4, c \in utcnow(now) :
         \E u \in utcnow(c) :
           LET scene == ARScene(session_id, room_type, c, u)
               n == IF Truthy(design_data)
                    THEN Len(populate_additions(ValueOf(design_data)))
                    ELSE 0
           IN  \E hexes \in [1..n -> Hexes], times \in ClockReads(u, n) :
                 LET populated ==
                         IF Truthy(design_data)
                         THEN populate_scene_from_design(
                                  scene, ValueOf(design_data), hexes, times,
                                  Len(heap))
                         ELSE scene
                     h == heap \o [i \in 1..n |-> DefaultTransform]
                 IN  /\ Commit((session_id :> populated) @@ active_sessions,
                               h, saved)
                     /\ now' = LastRead(u, times)
                     /\ issued' = issued \cup {session_id}
                     /\ ret' = DerefScene(populated, h)
    /\ op' = "create_session"
    /\ pre' = None

UpdateModelTransform(session_id, model_id, position, rotation, scale) ==
    /\ op' = "update_model_transform"
    /\ LET scene == get_session(session_id)
       IN  IF IsNone(scene)
           THEN ret' = FALSE /\ Untouched
           ELSE LET i == get_model(ValueOf(scene), model_id)
                IN  IF i = 0
                    THEN ret' = FALSE /\ Untouched
                    ELSE \E t \in utcnow(now) :
                           LET addr == ValueOf(scene).models[i].transform
                           IN  /\ heap' = [heap EXCEPT ![addr] =
                                     update_transform(@, position, rotation,
                                                      scale)]
                               /\ active_sessions' =
                                     [active_sessions EXCEPT
                                         ![session_id].updated_at = t]
                               /\ now' = t
                               /\ ret' = TRUE
                               /\ UNCHANGED <<issued, saved>>
    /\ pre' = None

AddModelToSession(session_id, model_id) ==
    /\ op' = "add_model_to_session"
    /\ LET scene == get_session(session_id)
       IN  IF IsNone(scene) \/ ~LibraryHas(model_id)
           THEN ret' = None /\ pre' = None /\ Untouched
           ELSE /\ Len(heap) < MaxPlaced
                /\ \E hex \in Hexes, t \in utcnow(now) :
                     LET instance_id == InstanceId(model_id, hex)
                         new_model == new_instance(model_id, hex,
                                                   Len(heap) + 1)
                         h == Append(heap, DefaultTransform)
                     IN  /\ Commit([active_sessions EXCEPT ![session_id] =
                                       add_model(@, new_model, t)],
                                   h, saved)
                         /\ now' = t
                         /\ ret' = Some(instance_id)
                /\ pre' = Some([session_id |-> session_id,
                                 models |-> Deref(ValueOf(scene).models, heap)])
                /\ UNCHANGED issued

RemoveModelFromSession(session_id, model_id) ==
    /\ op' = "remove_model_from_session"
    /\ LET scene == get_session(session_id)
       IN  IF IsNone(scene)
           THEN ret' = FALSE /\ Untouched
           ELSE \E t \in IF remove_model_result(ValueOf(scene), model_id)
                         THEN utcnow(now) ELSE {now} :
                  /\ Commit([active_sessions EXCEPT ![session_id] =
                                remove_model(@, model_id, t)],
                            heap, saved)
                  /\ now' = t
                  /\ ret' = remove_model_result(ValueOf(scene), model_id)
                  /\ UNCHANGED issued
    /\ pre' = None

\* the scene ids and the session data handed to load_session
LoadInputs ==
    {[k \in {} |-> 0]} \cup {[scene_id |-> s] : s \in SessionIds}

\* dict.get giving the default whatever the dict holds
DataGet_default(data, key, default) == default

DataGet(data, key, default) ==
    IF key \in DOMAIN data THEN data[key] ELSE default

\* the loop of load_session over the saved models; times are its clock
\* reads and base the heap's size
RECURSIVE restore_models(_, _, _, _, _)
restore_models(scene, models_data, i, times, base) ==
    IF i > Len(models_data) THEN scene
    ELSE LET model_data == models_data[i]
             model == AR3DModel(model_data.model_id, model_data.name,
                                model_data.category, model_data.glb_url,
                                model_data.dimensions,
                                DataGet(model_data, "transform", base + i))
         IN  restore_models(add_model(scene, model, times[i]),
                            models_data, i + 1, times, base)

LoadSession(session_data) ==
    /\ op' = "load_session"
    /\ \E session_id \in IF "scene_id" \in DOMAIN session_data
                         THEN {session_data.scene_id} ELSE uuid4 :
         /\ Cardinality(DOMAIN active_sessions \cup {session_id})
               <= MaxSessions
         /\ \E c \in utcnow(now) : \E u \in utcnow(c) :
              LET models_data == DataGet(session_data, "models", <<>>)
                  n == Len(models_data)
              IN  \E times \in ClockReads(u, n) :
                    LET scene0 == ARScene(session_id,
                                      DataGet(session_data, "room_type",
                                              "Living Room"), c, u)
                        restored == restore_models(scene0, models_data, 1,
                                                   times, Len(heap))
                        scene == [restored EXCEPT
                                     !.lighting = DataGet(session_data,
                                                      "lighting", @),
                                     !.environment = DataGet(session_data,
                                                      "environment", @)]
                        h == heap \o [i \in 1..n |-> DefaultTransform]
                    IN  /\ Commit((session_id :> scene) @@ active_sessions,
                                  h, saved)
                        /\ now' = LastRead(u, times)
         /\ ret' = session_id
         /\ issued' = issued \cup {session_id}
    /\ pre' = None

\* delete_session emptying the registry
DeleteSession_clearing(session_id) ==
    /\ op' = "delete_session"
    /\ IF session_id \in DOMAIN active_sessions
       THEN /\ Commit(<<>>, heap, saved)
            /\ ret' = TRUE
            /\ UNCHANGED <<now, issued>>
       ELSE ret' = FALSE /\ Untouched
    /\ pre' = None

\* delete_session answering True and leaving the entry where it is
DeleteSession_keeping(session_id) ==
    /\ op' = "delete_session"
    /\ ret' = (session_id \in DOMAIN active_sessions)
    /\ Untouched
    /\ pre' = None

DeleteSession(session_id) ==
    /\ op' = "delete_session"
    /\ IF session_id \in DOMAIN active_sessions
       THEN /\ Commit([sid \in (DOMAIN active_sessions) \ {session_id} |->
                          active_sessions[sid]],
                      heap, saved)
            /\ ret' = TRUE
            /\ UNCHANGED <<now, issued>>
       ELSE ret' = FALSE /\ Untouched
    /\ pre' = None

(***************************************************************************)
(* The session machine.                                                    *)
(***************************************************************************)
Init ==
    /\ active_sessions = <<>>
    /\ heap = <<>>
    /\ now = 0
    /\ issued = {}
    /\ op = "init"
    /\ ret = None
    /\ pre = None
    /\ saved = None
    /\ pc = "session"
    /\ arg = <<>>
    /\ res = <<>>

\* a call of the session machine; the function harness stands still
InSession(call) == pc = "session" /\ call /\ UNCHANGED harnessVars

Next ==
    \/ \E room_type \in RoomTypes, design_data \in DesignPayloads :
          InSession(CreateSession(room_type, design_data))
    \/ \E session_id \in SessionIds, model_id \in InstanceIds,
          a \in SessionUpdateArgs :
          InSession(UpdateModelTransform(session_id, model_id,
                                         a[1], a[2], a[3]))
    \/ \E session_id \in SessionIds, model_id \in AddIds :
          InSession(AddModelToSession(session_id, model_id))
    \/ \E session_id \in SessionIds, model_id \in InstanceIds :
          InSession(RemoveModelFromSession(session_id, model_id))
    \/ \E session_data \in LoadInputs :
          InSession(LoadSession(session_data))
    \/ \E session_id \in SessionIds :
          InSession(DeleteSession(session_id))

Spec == Init /\ [][Next]_vars

(***************************************************************************)
(* The functions of the library and of the scene assembler, applied to     *)
(* every argument of a bounded set.                                        *)
(***************************************************************************)
QueryAlphabet == {"s", "S", "o", "f", "a", "t"}

RECURSIVE SeqsUpTo(_, _)
SeqsUpTo(S, n) ==
    IF n = 0 THEN {<<>>}
    ELSE LET shorter == SeqsUpTo(S, n - 1)
         IN  shorter \cup {Append(s, v) : s \in shorter, v \in S}

Queries == SeqsUpTo(QueryAlphabet, MaxQueryLen)

KeyElementLists == SeqsUpTo(ElementPool, MaxElems)

HarnessInit(args) ==
    /\ active_sessions = <<>>
    /\ heap = <<>>
    /\ now = 0
    /\ issued = {}
    /\ op = "init"
    /\ ret = None
    /\ pre = None
    /\ saved = None
    /\ pc = "start"
    /\ arg \in args
    /\ res = <<>>

Search ==
    /\ pc = "start"
    /\ pc' = "done"
    /\ res' = [library |-> search_models(arg),
               service |-> service_search_models(arg),
               route   |-> search_ar_models(arg)]
    /\ UNCHANGED <<arg, sessionVars>>

SearchInit == HarnessInit(Queries)

SearchSpec == SearchInit /\ [][Search]_vars

\* _populate_scene_from_design on a new scene, as create_session calls it
Populate ==
    /\ pc = "start"
    /\ pc' = "done"
    /\ res' = populate_scene_from_design(
                  ARScene(1, "Living Room", 0, 0),
                  [key_elements |-> arg],
                  [i \in 1..Len(arg) |-> 1],
                  [i \in 1..Len(arg) |-> 0],
                  0).models
    /\ UNCHANGED <<arg, sessionVars>>

PopulateInit == HarnessInit(KeyElementLists)

PopulateSpec == PopulateInit /\ [][Populate]_vars

(***************************************************************************)
(* update_model_transform applied once, with every argument, to a scene    *)
(* holding one sofa whose transform earlier updates may have changed.      *)
(***************************************************************************)
\* the transforms of the sofa before the call
TransformPool ==
    {[position |-> p, rotation |-> r, scale |-> s] :
        p \in {DefaultTransform.position, [x |-> 5, y |-> 0, z |-> 0]},
        r \in {DefaultTransform.rotation, [x |-> 0, y |-> 5, z |-> 5]},
        s \in {DefaultTransform.scale, [x |-> 5, y |-> 5, z |-> 5]}}

TransformCalls ==
    [session_id : {1, 2},
     model_id   : {InstanceId("sofa_morden", 1), InstanceId("sofa_morden", 2)},
     before     : TransformPool,
     position   : ComponentArgs,
     rotation   : ComponentArgs,
     scale      : ComponentArgs]

TransformInit ==
    /\ arg \in TransformCalls
    /\ active_sessions =
          (1 :> add_model(ARScene(1, "Living Room", 0, 0),
                          new_instance("sofa_morden", 1, 1), 0))
    /\ heap = <<arg.before>>
    /\ now = 0
    /\ issued = {1}
    /\ op = "add_model_to_session"
    /\ ret = Some(InstanceId("sofa_morden", 1))
    /\ pre = None
    /\ saved = None
    /\ pc = "start"
    /\ res = <<>>

TransformCall ==
    /\ pc = "start"
    /\ pc' = "done"
    /\ UpdateModelTransform(arg.session_id, arg.model_id, arg.position,
                            arg.rotation, arg.scale)
    /\ UNCHANGED <<arg, res>>

TransformSpec == TransformInit /\ [][TransformCall]_vars

(***************************************************************************)
(* create_session on a new manager with a design payload as it arrives     *)
(* from JSON: key_elements may be missing, null, or a list whose entries   *)
(* are strings or other values.                                            *)
(***************************************************************************)
MaxRawElems == 3

\* decoded JSON values, tagged with their Python type
PyStr(s) == [type |-> "str", value |-> s]

PyInt42 == [type |-> "int", value |-> "42"]

PyNull == [type |-> "NoneType", items |-> <<>>]

PyList(items) == [type |-> "list", items |-> items]

RawEntries ==
    {PyStr("Modern Sofa"), PyStr("Floor Lamp"), PyStr("Unknown Gadget"),
     PyInt42}

\* non-empty design_data dicts: with or without the key 'key_elements'
RawPayloads ==
    {[present |-> FALSE, key_elements |-> PyNull]}
       \cup {[present |-> TRUE, key_elements |-> v] :
                v \in {PyNull} \cup {PyList(l) :
                                       l \in SeqsUpTo(RawEntries, MaxRawElems)}}

\* design_data.get('key_elements', [])
raw_key_elements(design_data) ==
    IF design_data.present THEN design_data.key_elements ELSE PyList(<<>>)

\* the exception _populate_scene_from_design ends with, "" if it returns:
\* None[:5] is a TypeError, and element.lower() an AttributeError for the
\* first of the elements examined that is not a str
populate_raises(design_data) ==
    LET key_elements == raw_key_elements(design_data)
    IN  IF key_elements.type # "list" THEN "TypeError"
        ELSE LET examined == elements_examined(key_elements.items)
             IN  IF \E i \in 1..Len(examined) : examined[i].type # "str"
                 THEN "AttributeError"
                 ELSE ""

\* the key elements as the strings they are, when all are strings
strings_of(design_data) ==
    LET items == raw_key_elements(design_data).items
    IN  [i \in 1..Len(items) |-> items[i].value]

\* create_session("Living Room", design_data): an exception of the
\* assembler leaves create_session before the scene is registered
Assemble ==
    /\ pc = "start"
    /\ pc' = "done"
    /\ LET raised == populate_raises(arg)
       IN  /\ res' = [raised |-> raised]
           /\ IF raised # ""
              THEN /\ op' = "create_session"
                   /\ ret' = None
                   /\ pre' = None
                   /\ Untouched
              ELSE CreateSession("Living Room",
                                 Some([key_elements |-> strings_of(arg)]))
    /\ UNCHANGED arg

AssembleInit == HarnessInit(RawPayloads)

AssembleSpec == AssembleInit /\ [][Assemble]_vars

(***************************************************************************)
(* save_session, and the session machine of a caller that keeps the data   *)
(* save_session returned and hands it to load_session.                     *)
(***************************************************************************)
\* save_session: 'data' is scene.to_dict(), whose models carry the
\* transform dicts of the scene's models themselves
SaveSession(session_id) ==
    /\ op' = "save_session"
    /\ LET scene == get_session(session_id)
       IN  IF IsNone(scene)
           THEN /\ ret' = [success |-> FALSE, error |-> "Session not found"]
                /\ Untouched
           ELSE /\ ret' = [success |-> TRUE, session_id |-> session_id]
                /\ Commit(active_sessions, heap,
                          Some(to_dict(ValueOf(scene))))
                /\ UNCHANGED <<now, issued>>
    /\ pre' = None

\* a dict built from d without one key: {k: v for k, v in d.items() if
\* k != key}; the values are the objects of d
WithoutKey(d, key) == [k \in (DOMAIN d) \ {key} |-> d[k]]

\* what the caller hands to load_session: the data kept, as it is or
\* without its 'scene_id'
SavedInputs ==
    IF IsNone(saved) THEN {}
    ELSE {ValueOf(saved), WithoutKey(ValueOf(saved), "scene_id")}

SnapshotNext ==
    \/ InSession(CreateSession("Living Room", None))
    \/ \E session_id \in SessionIds :
          InSession(AddModelToSession(session_id, "sofa_morden"))
    \/ \E session_id \in SessionIds, model_id \in InstanceIds,
          a \in SessionUpdateArgs :
          InSession(UpdateModelTransform(session_id, model_id,
                                         a[1], a[2], a[3]))
    \/ \E session_id \in SessionIds :
          InSession(SaveSession(session_id))
    \/ \E session_data \in SavedInputs :
          InSession(LoadSession(session_data))

SnapshotSpec == Init /\ [][SnapshotNext]_vars

(***************************************************************************)
(* The library's entries and the instances placed from them, with their    *)
(* dimensions and transform dicts by address, so that a dict two objects   *)
(* share shows.  res holds the store: the dicts, the entries, the placed   *)
(* instances and the name of the last call.                                *)
(***************************************************************************)
MaxLibPlaced == 2

\* the entries instances are placed from
LibSeq == <<"sofa_morden", "modern_desk_lamp">>

LibIds == {LibSeq[i] : i \in 1..Len(LibSeq)}

LibAddr(model_id) == CHOOSE i \in 1..Len(LibSeq) : LibSeq[i] = model_id

\* the same dict handed on instead of a copy
dict_sharing(dicts, addr) == [dicts |-> dicts, addr |-> addr]

\* dict.copy(): a new dict with the items of the dict at addr
dict_copy(dicts, addr) ==
    [dicts |-> Append(dicts, dicts[addr]), addr |-> Len(dicts) + 1]

\* ARModelLibrary() with the dicts of its models in the store
LibraryStore ==
    [dims       |-> [i \in 1..Len(LibSeq) |-> LibraryGet(LibSeq[i]).dimensions],
     transforms |-> [i \in 1..Len(LibSeq) |-> LibraryGet(LibSeq[i]).transform],
     library    |-> [id \in LibIds |->
                        [LibraryGet(id) EXCEPT !.dimensions = LibAddr(id),
                                               !.transform = LibAddr(id)]],
     placed     |-> <<>>,
     call       |-> "init"]

\* add_model_to_session: the new instance built from the library model
LibraryPlace(model_id, hex) ==
    /\ Len(res.transforms) < Len(LibSeq) + MaxLibPlaced
    /\ LET library_model == res.library[model_id]
           copy == dict_copy(res.dims, library_model.dimensions)
           new_model == AR3DModel(InstanceId(model_id, hex),
                                  library_model.name, library_model.category,
                                  library_model.glb_url, copy.addr,
                                  Len(res.transforms) + 1)
       IN  res' = [res EXCEPT
                      !.dims = copy.dicts,
                      !.transforms = Append(@, DefaultTransform),
                      !.placed = Append(@, new_model),
                      !.call = "add_model_to_session"]

\* update_model_transform on a placed instance
LibraryUpdate(model_id, position, rotation, scale) ==
    LET i == get_model([models |-> res.placed], model_id)
    IN  /\ i # 0
        /\ res' = [res EXCEPT
                      !.transforms[res.placed[i].transform] =
                          update_transform(@, position, rotation, scale),
                      !.call = "update_model_transform"]

\* remove_model_from_session
LibraryRemove(model_id) ==
    /\ get_model([models |-> res.placed], model_id) # 0
    /\ res' = [res EXCEPT
                  !.placed = models_without([models |-> res.placed], model_id),
                  !.call = "remove_model_from_session"]

\* a change of a catalog entry: an item of its dimensions dict set, its
\* transform updated in place, or its name bound to another string
LibraryChange(model_id, field) ==
    LET entry == res.library[model_id]
    IN  res' = [res EXCEPT
                   !.dims[entry.dimensions] =
                       IF field = "dimensions"
                       THEN [@ EXCEPT !.width = 1] ELSE @,
                   !.transforms[entry.transform] =
                       IF field = "transform"
                       THEN update_transform(@, Some([k \in {"x"} |-> 5]),
                                             None, None)
                       ELSE @,
                   !.library[model_id].name =
                       IF field = "name" THEN "Renamed" ELSE @,
                   !.call = "change_entry"]

\* the entries and the instances with their dicts read through the address
LibraryView(store) ==
    [id \in LibIds |->
        [store.library[id] EXCEPT !.dimensions = store.dims[@],
                                  !.transform = store.transforms[@]]]

PlacedView(store) ==
    [i \in 1..Len(store.placed) |->
        [store.placed[i] EXCEPT !.dimensions = store.dims[@],
                                !.transform = store.transforms[@]]]

LibraryInit ==
    /\ active_sessions = <<>>
    /\ heap = <<>>
    /\ now = 0
    /\ issued = {}
    /\ op = "init"
    /\ ret = None
    /\ pre = None
    /\ saved = None
    /\ pc = "library"
    /\ arg = <<>>
    /\ res = LibraryStore

\* a call on the store; everything else stands still
InLibrary(call) ==
    pc = "library" /\ call /\ UNCHANGED <<pc, arg, sessionVars>>

LibraryNext ==
    \/ \E model_id \in LibIds, hex \in Hexes :
          InLibrary(LibraryPlace(model_id, hex))
    \/ \E model_id \in InstanceIds, a \in SessionUpdateArgs :
          InLibrary(LibraryUpdate(model_id, a[1], a[2], a[3]))
    \/ \E model_id \in InstanceIds :
          InLibrary(LibraryRemove(model_id))
    \/ \E model_id \in LibIds,
          field \in {"dimensions", "transform", "name"} :
          InLibrary(LibraryChange(model_id, field))

LibrarySpec == LibraryInit /\ [][LibraryNext]_vars
(***************************************************************************)
(* ARService: what it makes of the manager's return values.                *)
(***************************************************************************)
\* ARService.get_session, scene being what the manager's get_session gave
service_get_session(scene) ==
    IF IsNone(scene)
    THEN [success |-> FALSE, error |-> "Session not found"]
    ELSE [success |-> TRUE, scene_data |-> to_dict(ValueOf(scene))]

\* ARService.update_model, success being what update_model_transform gave
service_update_model(success) ==
    IF success
    THEN [success |-> TRUE, message |-> "Model updated"]
    ELSE [success |-> FALSE, error |-> "Failed to update model"]

\* ARService.add_model, instance_id being what add_model_to_session gave
service_add_model(instance_id) ==
    IF ~IsNone(instance_id)
    THEN [success |-> TRUE, instance_id |-> ValueOf(instance_id),
          message |-> "Model added to scene"]
    ELSE [success |-> FALSE, error |-> "Failed to add model"]

\* ARService.remove_model, success being what remove_model_from_session gave
service_remove_model(success) ==
    IF success
    THEN [success |-> TRUE, message |-> "Model removed"]
    ELSE [success |-> FALSE, error |-> "Failed to remove model"]

(***************************************************************************)
(* The routes of app.py over ARService: the status code of the response.   *)
(***************************************************************************)
\* the empty string as a session id; uuid4 never returns it
EmptySessionId == 0

\* the empty string as a catalog model id and as an instance id
EmptyModelId == ""

EmptyInstanceId == InstanceId("", 0)

\* get_ar_session: 400 when session_id is missing or empty
get_ar_session(session_id, result) ==
    IF session_id = EmptySessionId THEN 400
    ELSE IF result.success THEN 200 ELSE 500

\* update_ar_model, add_ar_model and remove_ar_model for a body that has
\* both keys: 400 is for a missing key only
model_route(result) == IF result.success THEN 200 ELSE 500

(***************************************************************************)
(* The session machine called through ARService: res keeps the request of  *)
(* the last call, with what it was (an empty id in it, or well-formed ids  *)
(* naming something that is not there), the dict ARService returned and    *)
(* the status of the route's response.                                     *)
(***************************************************************************)
RequestSessionIds == {EmptySessionId} \cup SessionIds

RequestAddIds == {EmptyModelId} \cup AddIds

RequestInstanceIds == {EmptyInstanceId} \cup InstanceIds

ServiceOps == {"get_session", "update_model_transform",
               "add_model_to_session", "remove_model_from_session"}

\* the manager's get_session as a call
GetSession(session_id) ==
    /\ op' = "get_session"
    /\ ret' = get_session(session_id)
    /\ pre' = None
    /\ Untouched

\* what the session machine's scene holds under that instance id
HasInstance(session_id, model_id) ==
    /\ session_id \in DOMAIN active_sessions
    /\ get_model(active_sessions[session_id], model_id) # 0

InService(call, empty, found, result, status) ==
    /\ pc = "session"
    /\ call
    /\ res' = [empty  |-> empty,
               absent |-> ~empty /\ ~found,
               result |-> result,
               status |-> status]
    /\ UNCHANGED <<pc, arg>>

ServiceGetSession(session_id) ==
    InService(GetSession(session_id),
              session_id = EmptySessionId,
              session_id \in DOMAIN active_sessions,
              service_get_session(ret'),
              get_ar_session(session_id, service_get_session(ret')))

ServiceUpdateModel(session_id, model_id, position, rotation, scale) ==
    InService(UpdateModelTransform(session_id, model_id, position,
                                   rotation, scale),
              session_id = EmptySessionId \/ model_id = EmptyInstanceId,
              HasInstance(session_id, model_id),
              service_update_model(ret'),
              model_route(service_update_model(ret')))

ServiceAddModel(session_id, model_id) ==
    InService(AddModelToSession(session_id, model_id),
              session_id = EmptySessionId \/ model_id = EmptyModelId,
              session_id \in DOMAIN active_sessions /\ LibraryHas(model_id),
              service_add_model(ret'),
              model_route(service_add_model(ret')))

ServiceRemoveModel(session_id, model_id) ==
    InService(RemoveModelFromSession(session_id, model_id),
              session_id = EmptySessionId \/ model_id = EmptyInstanceId,
              HasInstance(session_id, model_id),
              service_remove_model(ret'),
              model_route(service_remove_model(ret')))

ServiceNext ==
    \/ InSession(CreateSession("Living Room", None))
    \/ \E session_id \in RequestSessionIds :
          ServiceGetSession(session_id)
    \/ \E session_id \in RequestSessionIds,
          model_id \in RequestInstanceIds, a \in SessionUpdateArgs :
          ServiceUpdateModel(session_id, model_id, a[1], a[2], a[3])
    \/ \E session_id \in RequestSessionIds, model_id \in RequestAddIds :
          ServiceAddModel(session_id, model_id)
    \/ \E session_id \in RequestSessionIds,
          model_id \in RequestInstanceIds :
          ServiceRemoveModel(session_id, model_id)

ServiceSpec == Init /\ [][ServiceNext]_vars

(***************************************************************************)
(* update_model_transform applied once to a scene holding one sofa, with   *)
(* the components as they arrive from JSON: missing, a dict, or a value    *)
(* that is not a dict.                                                     *)
(***************************************************************************)
PyDict(d) == [type |-> "dict", value |-> d]

RawComponents ==
    {[type |-> "NoneType", value |-> ""],
     PyDict([k \in {} |-> 5]),
     PyDict([k \in {"x"} |-> 5]),
     PyDict([k \in {"y", "z"} |-> 5]),
     [type |-> "str", value |-> ""],
     [type |-> "str", value |-> "abc"],
     [type |-> "int", value |-> "5"]}

\* the truth value of a component: None, {} and "" are false
raw_truthy(c) ==
    IF c.type = "dict" THEN DOMAIN c.value # {}
    ELSE IF c.type = "str" THEN c.value # ""
    ELSE c.type = "int"

\* the exception of self.transform[...].update(c), "" if there is none:
\* a non-empty str is no sequence of pairs, an int is not iterable
update_raises(c) ==
    IF c.type = "str" /\ c.value # "" THEN "ValueError"
    ELSE IF c.type = "int" THEN "TypeError"
    ELSE ""

\* one 'if c: self.transform[field].update(c)' of update_transform on the
\* outcome so far
update_component(outcome, field, c) ==
    IF outcome.raised # "" \/ ~raw_truthy(c) THEN outcome
    ELSE IF update_raises(c) # ""
         THEN [outcome EXCEPT !.raised = update_raises(c)]
         ELSE [outcome EXCEPT !.transform[field] = DictUpdate(@, c.value)]

\* AR3DModel.update_transform: the transform it leaves and the exception
\* it ends with
update_transform_raw(transform, position, rotation, scale) ==
    update_component(
        update_component(
            update_component([transform |-> transform, raised |-> ""],
                             "position", position),
            "rotation", rotation),
        "scale", scale)

\* a component that is a dict or None, as the optional dict it is
dict_of(c) == IF c.type = "dict" THEN Some(c.value) ELSE None

AtomicCalls ==
    [model_id : {InstanceId("sofa_morden", 1), InstanceId("sofa_morden", 2)},
     position : RawComponents,
     rotation : RawComponents,
     scale    : RawComponents]

AtomicInit ==
    /\ arg \in AtomicCalls
    /\ active_sessions =
          (1 :> add_model(ARScene(1, "Living Room", 0, 0),
                          new_instance("sofa_morden", 1, 1), 0))
    /\ heap = <<DefaultTransform>>
    /\ now = 0
    /\ issued = {1}
    /\ op = "add_model_to_session"
    /\ ret = Some(InstanceId("sofa_morden", 1))
    /\ pre = None
    /\ saved = None
    /\ pc = "start"
    /\ res = <<>>

\* update_model_transform(1, model_id, position, rotation, scale): an
\* exception of update_transform leaves it before updated_at is set
AtomicCall ==
    /\ pc = "start"
    /\ pc' = "done"
    /\ LET outcome == update_transform_raw(heap[1], arg.position,
                                           arg.rotation, arg.scale)
           raised == IF HasInstance(1, arg.model_id)
                     THEN outcome.raised ELSE ""
       IN  /\ res' = [raised |-> raised]
           /\ IF raised # ""
              THEN /\ op' = "update_model_transform"
                   /\ heap' = <<outcome.transform>>
                   /\ ret' = None
                   /\ pre' = None
                   /\ UNCHANGED <<active_sessions, now, issued, saved>>
              ELSE UpdateModelTransform(1, arg.model_id,
                                        dict_of(arg.position),
                                        dict_of(arg.rotation),
                                        dict_of(arg.scale))
    /\ UNCHANGED arg

AtomicSpec == AtomicInit /\ [][AtomicCall]_vars

(***************************************************************************)
(* Two request threads calling the one ARSessionManager of the process.    *)
(* Nothing in ar_service.py takes a lock, so the calls interleave between  *)
(* their reads and writes of active_sessions, of a scene's models          *)
(* attribute and of the list it refers to; each such read or write is one  *)
(* step.  res keeps the threads' local variables and list, the identity    *)
(* of the list object scene.models refers to.                              *)
(***************************************************************************)
Threads == {1, 2}

\* the pairs of calls the two threads make
ThreadCalls ==
    {<<[name |-> "add_model_to_session", session_id |-> 1, model_id |-> m],
       [name |-> "remove_model_from_session", session_id |-> 1,
        model_id |-> i]>> :
        m \in AddIds, i \in InstanceIds}
    \cup
    {<<[name |-> "delete_session", session_id |-> s, model_id |-> ""],
       [name |-> "delete_session", session_id |-> t, model_id |-> ""]>> :
        s \in {1, 2}, t \in {1, 2}}
    \cup
    {<<[name |-> "create_session", session_id |-> 0, model_id |-> ""],
       [name |-> "delete_session", session_id |-> s, model_id |-> ""]>> :
        s \in {1, 2}}

\* a thread before its call: its locals are not set yet
NewThread(call) ==
    [call           |-> call,
     at             |-> "start",
     list           |-> 0,
     model          |-> None,
     initial_length |-> 0,
     filtered       |-> <<>>,
     scene          |-> None,
     result         |-> ""]

\* the manager holds scene 1 with a sofa and a lamp
ThreadInit ==
    /\ arg \in ThreadCalls
    /\ active_sessions =
          (1 :> add_model(
                   add_model(ARScene(1, "Living Room", 0, 0),
                             new_instance("sofa_morden", 1, 1), 0),
                   new_instance("modern_desk_lamp", 1, 2), 0))
    /\ heap = <<DefaultTransform, DefaultTransform>>
    /\ now = 0
    /\ issued = {1}
    /\ op = "add_model_to_session"
    /\ ret = Some(InstanceId("modern_desk_lamp", 1))
    /\ pre = None
    /\ saved = None
    /\ pc = "threads"
    /\ res = [threads |-> [t \in Threads |-> NewThread(arg[t])],
              list    |-> 1]

\* thread t is at that place of that function
At(t, name, at) ==
    /\ pc = "threads"
    /\ res.threads[t].call.name = name
    /\ res.threads[t].at = at

\* thread t goes on with these locals
Goes(t, thread) == res' = [res EXCEPT !.threads[t] = thread]

ThreadLocalStep == UNCHANGED <<active_sessions, heap, now, issued>>

\* add_model_to_session up to the call of scene.add_model: the lookups
\* and the new instance
AddBuild(t) ==
    /\ At(t, "add_model_to_session", "start")
    /\ LET self == res.threads[t]
           scene == get_session(self.call.session_id)
       IN  IF IsNone(scene) \/ ~LibraryHas(self.call.model_id)
           THEN /\ Goes(t, [self EXCEPT !.at = "done", !.result = "None"])
                /\ ThreadLocalStep
           ELSE \E hex \in Hexes :
                  /\ heap' = Append(heap, DefaultTransform)
                  /\ Goes(t, [self EXCEPT
                                 !.at = "load",
                                 !.model = Some(new_instance(
                                               self.call.model_id, hex,
                                               Len(heap) + 1))])
                  /\ UNCHANGED <<active_sessions, now, issued>>

\* self.models.append(model): the attribute is read ...
AddLoad(t) ==
    /\ At(t, "add_model_to_session", "load")
    /\ Goes(t, [res.threads[t] EXCEPT !.at = "append", !.list = res.list])
    /\ ThreadLocalStep

\* ... and the list it gave is appended to; the scene shows the new model
\* only if its models attribute still refers to that list
AddAppend(t) ==
    /\ At(t, "add_model_to_session", "append")
    /\ LET self == res.threads[t]
       IN  /\ active_sessions' =
                 IF self.list = res.list
                 THEN [active_sessions EXCEPT
                          ![self.call.session_id].models =
                              Append(@, ValueOf(self.model))]
                 ELSE active_sessions
           /\ Goes(t, [self EXCEPT !.at = "stamp"])
    /\ UNCHANGED <<heap, now, issued>>

\* self.updated_at = datetime.utcnow(), and the return of the instance id
AddStamp(t) ==
    /\ At(t, "add_model_to_session", "stamp")
    /\ LET self == res.threads[t]
       IN  \E u \in utcnow(now) :
             /\ active_sessions' =
                   [active_sessions EXCEPT
                       ![self.call.session_id].updated_at = u]
             /\ now' = u
             /\ Goes(t, [self EXCEPT !.at = "done", !.result = "id"])
    /\ UNCHANGED <<heap, issued>>

\* remove_model_from_session: the lookup of the scene
RemoveGet(t) ==
    /\ At(t, "remove_model_from_session", "start")
    /\ LET self == res.threads[t]
       IN  IF IsNone(get_session(self.call.session_id))
           THEN Goes(t, [self EXCEPT !.at = "done", !.result = "False"])
           ELSE Goes(t, [self EXCEPT !.at = "len"])
    /\ ThreadLocalStep

\* initial_length = len(self.models)
RemoveLen(t) ==
    /\ At(t, "remove_model_from_session", "len")
    /\ LET self == res.threads[t]
       IN  Goes(t, [self EXCEPT
                       !.at = "filter",
                       !.initial_length =
                           Len(active_sessions[self.call.session_id].models)])
    /\ ThreadLocalStep

\* [m for m in self.models if m.model_id != model_id]: a new list
RemoveFilter(t) ==
    /\ At(t, "remove_model_from_session", "filter")
    /\ LET self == res.threads[t]
       IN  Goes(t, [self EXCEPT
                       !.at = "store",
                       !.filtered =
                           models_without(
                               active_sessions[self.call.session_id],
                               self.call.model_id)])
    /\ ThreadLocalStep

\* self.models = the new list
RemoveStore(t) ==
    /\ At(t, "remove_model_from_session", "store")
    /\ LET self == res.threads[t]
       IN  /\ active_sessions' =
                 [active_sessions EXCEPT
                     ![self.call.session_id].models = self.filtered]
           /\ res' = [res EXCEPT !.threads[t].at = "compare",
                                 !.list = res.list + 1]
    /\ UNCHANGED <<heap, now, issued>>

\* if len(self.models) < initial_length
RemoveCompare(t) ==
    /\ At(t, "remove_model_from_session", "compare")
    /\ LET self == res.threads[t]
       IN  IF Len(active_sessions[self.call.session_id].models)
                 < self.initial_length
           THEN Goes(t, [self EXCEPT !.at = "stamp"])
           ELSE Goes(t, [self EXCEPT !.at = "done", !.result = "False"])
    /\ ThreadLocalStep

\* self.updated_at = datetime.utcnow(); return True
RemoveStamp(t) ==
    /\ At(t, "remove_model_from_session", "stamp")
    /\ LET self == res.threads[t]
       IN  \E u \in utcnow(now) :
             /\ active_sessions' =
                   [active_sessions EXCEPT
                       ![self.call.session_id].updated_at = u]
             /\ now' = u
             /\ Goes(t, [self EXCEPT !.at = "done", !.result = "True"])
    /\ UNCHANGED <<heap, issued>>

\* delete_session: if session_id in self.active_sessions
DeleteCheck(t) ==
    /\ At(t, "delete_session", "start")
    /\ LET self == res.threads[t]
       IN  IF self.call.session_id \in DOMAIN active_sessions
           THEN Goes(t, [self EXCEPT !.at = "del"])
           ELSE Goes(t, [self EXCEPT !.at = "done", !.result = "False"])
    /\ ThreadLocalStep

\* del self.active_sessions[session_id]: a KeyError if the key is gone
DeleteDel(t) ==
    /\ At(t, "delete_session", "del")
    /\ LET self == res.threads[t]
           session_id == self.call.session_id
       IN  IF session_id \in DOMAIN active_sessions
           THEN /\ active_sessions' =
                      [s \in (DOMAIN active_sessions) \ {session_id} |->
                          active_sessions[s]]
                /\ Goes(t, [self EXCEPT !.at = "done", !.result = "True"])
           ELSE /\ active_sessions' = active_sessions
                /\ Goes(t, [self EXCEPT !.at = "done",
                                        !.result = "KeyError"])
    /\ UNCHANGED <<heap, now, issued>>

\* create_session("Living Room"): the id and the scene ...
CreateBuild(t) ==
    /\ At(t, "create_session", "start")
    /\ \E session_id \in uuid4, c \in utcnow(now) :
         \E u \in utcnow(c) :
           /\ Goes(t, [res.threads[t] EXCEPT
                          !.at = "register",
                          !.scene = Some(ARScene(session_id, "Living Room",
                                                 c, u))])
           /\ issued' = issued \cup {session_id}
           /\ now' = u
    /\ UNCHANGED <<active_sessions, heap>>

\* ... and self.active_sessions[session_id] = scene
CreateRegister(t) ==
    /\ At(t, "create_session", "register")
    /\ LET self == res.threads[t]
           scene == ValueOf(self.scene)
       IN  /\ active_sessions' =
                 (scene.scene_id :> scene) @@ active_sessions
           /\ Goes(t, [self EXCEPT !.at = "done", !.result = "scene"])
    /\ UNCHANGED <<heap, now, issued>>

\* a step of one thread; the session machine's own variables stand still
InThread(step) == step /\ UNCHANGED <<op, ret, pre, saved, pc, arg>>

ThreadNext ==
    \/ \E t \in Threads : InThread(AddBuild(t))
    \/ \E t \in Threads : InThread(AddLoad(t))
    \/ \E t \in Threads : InThread(AddAppend(t))
    \/ \E t \in Threads : InThread(AddStamp(t))
    \/ \E t \in Threads : InThread(RemoveGet(t))
    \/ \E t \in Threads : InThread(RemoveLen(t))
    \/ \E t \in Threads : InThread(RemoveFilter(t))
    \/ \E t \in Threads : InThread(RemoveStore(t))
    \/ \E t \in Threads : InThread(RemoveCompare(t))
    \/ \E t \in Threads : InThread(RemoveStamp(t))
    \/ \E t \in Threads : InThread(DeleteCheck(t))
    \/ \E t \in Threads : InThread(DeleteDel(t))
    \/ \E t \in Threads : InThread(CreateBuild(t))
    \/ \E t \in Threads : InThread(CreateRegister(t))

ThreadSpec == ThreadInit /\ [][ThreadNext]_vars

\* both calls have returned or raised
BothDone == pc = "threads" /\ \A t \in Threads : res.threads[t].at = "done"

(***************************************************************************)
(* One scene, created empty, to which models are added and from which      *)
(* they are removed; res.added lists every addition in the order it was    *)
(* made, with whether a removal has taken the instance since.              *)
(***************************************************************************)
\* additions made to the scene
MaxAdded == 4

OrderInit ==
    /\ active_sessions = (1 :> ARScene(1, "Living Room", 0, 0))
    /\ heap = <<>>
    /\ now = 0
    /\ issued = {1}
    /\ op = "create_session"
    /\ ret = None
    /\ pre = None
    /\ saved = None
    /\ pc = "order"
    /\ arg = <<>>
    /\ res = [added |-> <<>>]

\* add_model_to_session(1, model_id), hex being uuid4().hex[:8]
OrderAdd(model_id, hex) ==
    /\ pc = "order"
    /\ Len(res.added) < MaxAdded
    /\ LibraryHas(model_id)
    /\ \E t \in utcnow(now) :
         /\ active_sessions' =
               [active_sessions EXCEPT ![1] =
                   add_model(@, new_instance(model_id, hex, Len(heap) + 1),
                             t)]
         /\ now' = t
    /\ heap' = Append(heap, DefaultTransform)
    /\ op' = "add_model_to_session"
    /\ ret' = Some(InstanceId(model_id, hex))
    /\ res' = [added |-> Append(res.added,
                                [model_id |-> InstanceId(model_id, hex),
                                 there    |-> TRUE])]
    /\ UNCHANGED <<issued, pre, saved, pc, arg>>

\* remove_model_from_session(1, model_id)
OrderRemove(model_id) ==
    /\ pc = "order"
    /\ \E t \in IF remove_model_result(active_sessions[1], model_id)
                THEN utcnow(now) ELSE {now} :
         /\ active_sessions' =
               [active_sessions EXCEPT ![1] = remove_model(@, model_id, t)]
         /\ now' = t
    /\ op' = "remove_model_from_session"
    /\ ret' = remove_model_result(active_sessions[1], model_id)
    /\ res' = [added |-> [i \in 1..Len(res.added) |->
                             IF res.added[i].model_id = model_id
                             THEN [res.added[i] EXCEPT !.there = FALSE]
                             ELSE res.added[i]]]
    /\ UNCHANGED <<heap, issued, pre, saved, pc, arg>>

OrderNext ==
    \/ \E model_id \in AddIds, hex \in Hexes : OrderAdd(model_id, hex)
    \/ \E model_id \in InstanceIds : OrderRemove(model_id)

OrderSpec == OrderInit /\ [][OrderNext]_vars

(***************************************************************************)
(* save_session(1) followed by load_session of the data it returned, on a  *)
(* manager whose scene 1 has any room type and up to MaxSavedModels        *)
(* models with transforms that earlier updates may have changed.           *)
(***************************************************************************)
MaxSavedModels == 2

SavedRoomTypes == {"Living Room", "Bedroom", ""}

\* the scenes saved: the room type, and for each model its library id,
\* uuid suffix and transform
RoundTripScenes ==
    [room_type : SavedRoomTypes,
     placed    : SeqsUpTo([model_id  : {"sofa_morden", "modern_desk_lamp"},
                           hex       : {1},
                           transform : TransformPool],
                          MaxSavedModels)]

RECURSIVE place_all(_, _, _)
place_all(scene, placed, i) ==
    IF i > Len(placed) THEN scene
    ELSE place_all(add_model(scene,
                             new_instance(placed[i].model_id, placed[i].hex,
                                          i), 0),
                   placed, i + 1)

RoundTripInit ==
    /\ arg \in RoundTripScenes
    /\ active_sessions =
          (1 :> place_all(ARScene(1, arg.room_type, 0, 0), arg.placed, 1))
    /\ heap = [i \in 1..Len(arg.placed) |-> arg.placed[i].transform]
    /\ now = 0
    /\ issued = {1}
    /\ op = "create_session"
    /\ ret = None
    /\ pre = None
    /\ saved = None
    /\ pc = "start"
    /\ res = <<>>

RoundTripSave ==
    /\ pc = "start"
    /\ pc' = "saved"
    /\ SaveSession(1)
    /\ UNCHANGED <<arg, res>>

\* load_session(data); res keeps the scene as it was when it was saved
RoundTripLoad ==
    /\ pc = "saved"
    /\ pc' = "done"
    /\ LoadSession(ValueOf(saved))
    /\ res' = [scene |-> DerefScene(active_sessions[1], heap)]
    /\ UNCHANGED arg

RoundTripNext == RoundTripSave \/ RoundTripLoad

RoundTripSpec == RoundTripInit /\ [][RoundTripNext]_vars

(***************************************************************************)
(* create_session and load_session applied once, with data as it arrives   *)
(* from JSON, to a manager that holds scene 1 with a sofa: a design        *)
(* payload whose key_elements may be null or hold other values than        *)
(* strings, or session data whose model entries may lack a key.            *)
(***************************************************************************)
ConstructRegistry ==
    1 :> add_model(ARScene(1, "Living Room", 0, 0),
                   new_instance("sofa_morden", 1, 1), 0)

\* the keys load_session subscripts in a model entry
RequiredModelKeys ==
    {"model_id", "name", "category", "glb_url", "dimensions"}

\* a saved lamp without its 'transform', whole or lacking one key
ModelEntries ==
    LET whole == [k \in RequiredModelKeys |->
                     model_to_dict(new_instance("modern_desk_lamp", 1, 0))[k]]
    IN  {whole, WithoutKey(whole, "model_id"), WithoutKey(whole, "dimensions")}

\* session data: its models, with a registered scene_id, a new one or none
LoadPayloads ==
    LET withId == [scene_id : {1, 2},
                   models   : SeqsUpTo(ModelEntries, MaxSavedModels)]
    IN  withId \cup {WithoutKey(d, "scene_id") : d \in withId}

\* the exception load_session ends with, "" if it returns: model_data[key]
\* is a KeyError for the first entry that lacks a key
load_raises(session_data) ==
    IF \E i \in 1..Len(session_data.models) :
          ~(RequiredModelKeys \subseteq DOMAIN session_data.models[i])
    THEN "KeyError"
    ELSE ""

ConstructInit ==
    /\ arg \in RawPayloads \cup LoadPayloads
    /\ active_sessions = ConstructRegistry
    /\ heap = <<DefaultTransform>>
    /\ now = 0
    /\ issued = {1}
    /\ op = "add_model_to_session"
    /\ ret = Some(InstanceId("sofa_morden", 1))
    /\ pre = None
    /\ saved = None
    /\ pc = "start"
    /\ res = <<>>

\* create_session("Living Room", design_data)
ConstructCreate == "present" \in DOMAIN arg /\ Assemble

\* load_session registering the scene before it restores the models
ConstructLoad_registering_first ==
    /\ "models" \in DOMAIN arg
    /\ pc = "start"
    /\ pc' = "done"
    /\ res' = [raised |-> load_raises(arg)]
    /\ IF load_raises(arg) # ""
       THEN /\ op' = "load_session"
            /\ ret' = None
            /\ pre' = None
            /\ active_sessions' =
                  (DataGet(arg, "scene_id", 3)
                      :> ARScene(DataGet(arg, "scene_id", 3), "Living Room",
                                 now, now)) @@ active_sessions
            /\ UNCHANGED <<heap, now, issued, saved>>
       ELSE LoadSession(arg)
    /\ UNCHANGED arg

\* load_session(session_data): an exception in the loop over the models
\* leaves it before the scene, a local until then, is registered
ConstructLoad ==
    /\ "models" \in DOMAIN arg
    /\ pc = "start"
    /\ pc' = "done"
    /\ res' = [raised |-> load_raises(arg)]
    /\ IF load_raises(arg) # ""
       THEN /\ op' = "load_session"
            /\ ret' = None
            /\ pre' = None
            /\ Untouched
       ELSE LoadSession(arg)
    /\ UNCHANGED arg

ConstructNext == ConstructCreate \/ ConstructLoad

ConstructSpec == ConstructInit /\ [][ConstructNext]_vars


(***************************************************************************)
(* Helpers of the properties.                                              *)
(***************************************************************************)
\* two characters that are the same letter, whatever their case
SameLetter(a, b) ==
    \/ a = b
    \/ \E i \in 1..Len(UpperChars) :
          {a, b} = {UpperChars[i], LowerChars[i]}

\* sub occurs in text when case is ignored
OccursIgnoringCase(text, sub) ==
    \E off \in 0..(Len(text) - Len(sub)) :
        \A j \in 1..Len(sub) : SameLetter(text[off + j], sub[j])

\* the place of a library id in the seed list
SeedIndex(id) ==
    CHOOSE i \in 1..Len(furniture_items) : furniture_items[i].id = id

\* for every drawn key element, the rows of the table whose keyword the
\* element contains when case is ignored
RowsNamed ==
    [element \in ElementPool |->
        {k \in 1..Len(element_to_model) :
            OccursIgnoringCase(CharsOf(element),
                               CharsOf(element_to_model[k][1]))}]

\* the key element contains some keyword of the table
HasKeyword(element) == RowsNamed[element] # {}

\* the library ids the keywords contained in the element stand for
ModelsNamedBy(element) ==
    {element_to_model[k][2] : k \in RowsNamed[element]}

\* the library id a placed model was made from
LibraryIdOf(m) == m.model_id[1]

LibraryIdsOf(models) == {LibraryIdOf(models[i]) : i \in 1..Len(models)}

(***************************************************************************)
(* C1: for every non-empty room_type, create_session called without a      *)
(* design payload returns a scene whose models list is empty and whose     *)
(* created_at equals its updated_at.                                       *)
(***************************************************************************)
C1_NewSceneTimestampsEqual ==
    [][op' = "create_session" =>
          \A room_type \in RoomTypes \ {""} :
              InSession(CreateSession(room_type, None))
                 => /\ ret'.models = <<>>
                    /\ ret'.created_at = ret'.updated_at]_vars

C3_AddThenRemoveRestores ==
    [][(/\ op = "add_model_to_session"
        /\ ~IsNone(ret)
        /\ InSession(RemoveModelFromSession(ValueOf(pre).session_id,
                                            ValueOf(ret))))
          => Deref(active_sessions'[ValueOf(pre).session_id].models, heap')
                = ValueOf(pre).models]_vars

(***************************************************************************)
(* C4: update_model_transform merges field by field: a component that is   *)
(* omitted keeps all its fields, and of a supplied component only the      *)
(* supplied fields change.                                                 *)
(***************************************************************************)
C4_FieldwiseMerge ==
    (pc = "done" /\ op = "update_model_transform" /\ ret = TRUE) =>
        \A component \in {"position", "rotation", "scale"}, k \in Keys :
            LET supplied == arg[component]
                after == heap[1][component]
            IN  /\ DOMAIN after = Keys
                /\ after[k] =
                      IF ~IsNone(supplied) /\ k \in DOMAIN ValueOf(supplied)
                      THEN ValueOf(supplied)[k]
                      ELSE arg.before[component][k]

\* position {x: 5} alone was supplied to a model with the default transform
C4_Witness ==
    /\ pc = "done"
    /\ op = "update_model_transform"
    /\ ret = TRUE
    /\ arg.before = DefaultTransform
    /\ arg.position = Some([k \in {"x"} |-> 5])
    /\ IsNone(arg.rotation)
    /\ IsNone(arg.scale)
    /\ heap[1].position = [x |-> 5, y |-> 0, z |-> 0]
    /\ heap[1].rotation = [x |-> 0, y |-> 0, z |-> 0]
    /\ heap[1].scale = [x |-> 1, y |-> 1, z |-> 1]

(***************************************************************************)
(* C5: remove_model_from_session with an instance_id that is not in the    *)
(* scene returns false and leaves the scene's models and its updated_at    *)
(* (and every other scene) unchanged, so removing again what was removed   *)
(* is a no-op.                                                             *)
(***************************************************************************)
C5_RemoveAbsentIsNoOp ==
    [][op' = "remove_model_from_session" =>
          \A session_id \in SessionIds, model_id \in InstanceIds :
              (/\ session_id \in DOMAIN active_sessions
               /\ get_model(active_sessions[session_id], model_id) = 0
               /\ InSession(RemoveModelFromSession(session_id, model_id)))
                 => /\ ret' = FALSE
                    /\ active_sessions' = active_sessions
                    /\ heap' = heap]_vars

\* a removal has returned false on a scene that holds a model and was last
\* touched before the clock's present value
C5_Witness ==
    /\ op = "remove_model_from_session"
    /\ ret = FALSE
    /\ \E session_id \in DOMAIN active_sessions :
          /\ Len(active_sessions[session_id].models) > 0
          /\ active_sessions[session_id].updated_at < now

(***************************************************************************)
(* C6: searching with the empty query fails with InvalidArgument: neither  *)
(* ARModelLibrary.search_models("") nor ARService.search_models("")        *)
(* returns a successful list of catalog entries.                           *)
(***************************************************************************)
C6_EmptyQueryFails ==
    (pc = "done" /\ arg = <<>>) =>
        /\ res.service.success = FALSE
        /\ res.library = <<>>

(***************************************************************************)
(* C7: for a non-empty query search_models returns exactly the catalog     *)
(* entries whose name or category contains the query when case is ignored, *)
(* each once, in the order of the seed list.                               *)
(***************************************************************************)
C7_SearchExact ==
    (pc = "done" /\ arg # <<>>) =>
        LET found == res.library
        IN  /\ \A i \in 1..Len(found) :
                  /\ LibraryHas(found[i].model_id)
                  /\ found[i] = LibraryGet(found[i].model_id)
            /\ \A i \in 1..Len(found), j \in 1..Len(found) :
                  i < j => SeedIndex(found[i].model_id)
                              < SeedIndex(found[j].model_id)
            /\ \A e \in 1..Len(furniture_items) :
                  (\E i \in 1..Len(found) :
                      found[i].model_id = furniture_items[e].id)
                  <=> \/ OccursIgnoringCase(
                             CharsOf(furniture_items[e].name), arg)
                      \/ OccursIgnoringCase(
                             CharsOf(furniture_items[e].category), arg)

\* the query "Sofa" found the four sofas, in the order of the seed list
C7_Witness ==
    /\ pc = "done"
    /\ arg = <<"S", "o", "f", "a">>
    /\ [i \in 1..Len(res.library) |-> res.library[i].model_id]
          = <<"sofa_morden", "sofa_budget_friendly", "sofa_combination",
              "old_sofa">>

(***************************************************************************)
(* C8: the scene _populate_scene_from_design fills holds at most 5 models, *)
(* an element that contains no keyword of the table adds nothing, and the  *)
(* key elements "Modern Sofa", "Floor Lamp", "Unknown Gadget" give exactly *)
(* two models, one from the sofa entry and one from the lamp entry.        *)
(***************************************************************************)
C8_AtMostFiveAndOnlyMatches ==
    pc = "done" =>
        /\ Len(res) <= 5
        /\ Len(res) <= Cardinality({i \in 1..Len(arg) : HasKeyword(arg[i])})
        /\ \A i \in 1..Len(res) :
              \E j \in 1..Len(arg) : LibraryIdOf(res[i]) \in ModelsNamedBy(arg[j])
        /\ arg = <<"Modern Sofa", "Floor Lamp", "Unknown Gadget">>
              => [i \in 1..Len(res) |-> LibraryIdOf(res[i])]
                    = <<"sofa_morden", "modern_desk_lamp">>

\* the three elements of the example were given and two models were placed
C8_Witness ==
    /\ pc = "done"
    /\ arg = <<"Modern Sofa", "Floor Lamp", "Unknown Gadget">>
    /\ Len(res) = 2
    /\ res[1].name = "Modern Sofa"
    /\ res[2].name = "Modern Desk Lamp"

(***************************************************************************)
(* C9, as claimed: the cap counts additions, so the loop goes on until 5   *)
(* models are added or the list ends, and a scene left with fewer than 5   *)
(* models holds a model for every key element that contains a keyword,     *)
(* the sixth and later ones included.                                      *)
(***************************************************************************)
C9_CapCountsAdditions ==
    (pc = "done" /\ Len(res) < 5) =>
        \A i \in 1..Len(arg) :
            HasKeyword(arg[i])
               => ModelsNamedBy(arg[i]) \cap LibraryIdsOf(res) # {}

(***************************************************************************)
(* C9, amended: the cap counts the elements examined: only the first 5 key *)
(* elements are processed, each of them that contains a keyword has one of *)
(* its models in the scene, and every model of the scene comes from one of *)
(* those five; an element at position 6 or later never adds a model.       *)
(***************************************************************************)
C9_CapCountsElements ==
    pc = "done" =>
        LET first == 1..Min(5, Len(arg))
        IN  /\ \A i \in first :
                  HasKeyword(arg[i])
                     => ModelsNamedBy(arg[i]) \cap LibraryIdsOf(res) # {}
            /\ \A i \in 1..Len(res) :
                  \E j \in first : LibraryIdOf(res[i]) \in ModelsNamedBy(arg[j])
            /\ Len(res) <= Cardinality({i \in first : HasKeyword(arg[i])})

\* five elements without a keyword, then a sofa: the scene stays empty
C9_Witness ==
    /\ pc = "done"
    /\ Len(arg) = 6
    /\ \A i \in 1..5 : arg[i] = "Unknown Gadget"
    /\ arg[6] = "Modern Sofa"
    /\ res = <<>>

\* what the loop would add if, for each of the elements, it looked at the
\* first keyword the element contains and at no other
RECURSIVE FirstKeywordAdditions(_, _, _)
FirstKeywordAdditions(elements, i, added) ==
    IF i > Len(elements) THEN added
    ELSE LET hits == RowsNamed[elements[i]]
             first == CHOOSE k \in hits : \A j \in hits : k <= j
         IN  IF hits # {} /\ ~InSeq(added, element_to_model[first][2])
             THEN FirstKeywordAdditions(
                      elements, i + 1,
                      Append(added, element_to_model[first][2]))
             ELSE FirstKeywordAdditions(elements, i + 1, added)

(***************************************************************************)
(* C10: for each key element only the first keyword of the table that the  *)
(* element contains is considered: its model is added, or the element is   *)
(* skipped when that model was added before; no later keyword's model is   *)
(* added for it ("sofa chair" after a sofa adds nothing).                  *)
(***************************************************************************)
C10_FirstKeywordOnly ==
    pc = "done" =>
        [i \in 1..Len(res) |-> LibraryIdOf(res[i])]
           = FirstKeywordAdditions(SubSeq(arg, 1, Min(5, Len(arg))), 1, <<>>)

(***************************************************************************)
(* C11: in a scene _populate_scene_from_design filled no two models were   *)
(* placed from the same catalog entry, however many key elements map to    *)
(* that entry.                                                             *)
(***************************************************************************)
C11_OneModelPerEntry ==
    pc = "done" =>
        \A i \in 1..Len(res), j \in 1..Len(res) :
            i # j => LibraryIdOf(res[i]) # LibraryIdOf(res[j])

\* three key elements named the sofa entry and the scene holds one sofa
C11_Witness ==
    /\ pc = "done"
    /\ arg = <<"Modern Sofa", "Unknown Gadget", "Modern Sofa", "Modern Sofa">>
    /\ Len(res) = 1
    /\ LibraryIdOf(res[1]) = "sofa_morden"

(***************************************************************************)
(* C12: the scene assembler never raises: for every design payload, one    *)
(* whose key_elements is missing, null or holds entries that are not       *)
(* strings included, create_session returns a registered scene.            *)
(***************************************************************************)
C12_AssemblerNeverRaises ==
    pc = "done" =>
        /\ res.raised = ""
        /\ Cardinality(DOMAIN active_sessions) = 1

(***************************************************************************)
(* C13: a successful add_model_to_session(session, m) returns an instance  *)
(* id that starts with "m_", appends exactly one instance, with position   *)
(* {0,0,0}, rotation {0,0,0} and scale {1,1,1}, at the end of the scene's  *)
(* models list, and leaves the instances already in the scene unchanged.   *)
(***************************************************************************)
C13_AddAppendsOne ==
    [][op' = "add_model_to_session" =>
          \A session_id \in SessionIds, model_id \in AddIds :
              (/\ InSession(AddModelToSession(session_id, model_id))
               /\ ~IsNone(ret'))
                 => LET before == Deref(active_sessions[session_id].models,
                                        heap)
                        after == Deref(active_sessions'[session_id].models,
                                       heap')
                    IN  /\ ValueOf(ret')[1] = model_id
                        /\ Len(after) = Len(before) + 1
                        /\ SubSeq(after, 1, Len(before)) = before
                        /\ after[Len(after)].model_id = ValueOf(ret')
                        /\ after[Len(after)].transform = DefaultTransform]_vars

\* a model was added to a scene that held a model whose transform an
\* update had changed
C13_Witness ==
    /\ op = "add_model_to_session"
    /\ ~IsNone(ret)
    /\ Len(ValueOf(pre).models) = 1
    /\ ValueOf(pre).models[1].transform # DefaultTransform
    /\ Len(active_sessions[ValueOf(pre).session_id].models) = 2

(***************************************************************************)
(* C14: whatever create_session, add_model_to_session, remove and          *)
(* load_session calls were made, no two placed instances of the process    *)
(* carry the same instance id.                                             *)
(***************************************************************************)
C14_InstanceIdsUnique ==
    \A s1 \in DOMAIN active_sessions, s2 \in DOMAIN active_sessions :
        \A i \in 1..Len(active_sessions[s1].models),
           j \in 1..Len(active_sessions[s2].models) :
            (s1 # s2 \/ i # j)
               => active_sessions[s1].models[i].model_id
                     # active_sessions[s2].models[j].model_id

\* the scene registered under session_id holds a model with that id
Holds(session_id, model_id) ==
    /\ session_id \in DOMAIN active_sessions
    /\ \E i \in 1..Len(active_sessions[session_id].models) :
          active_sessions[session_id].models[i].model_id = model_id

(***************************************************************************)
(* C15: update_model_transform returns false when the session id is        *)
(* unknown or the instance id is not in that scene, and then no transform  *)
(* of any instance and no updated_at of any scene changes.                 *)
(***************************************************************************)
C15_UpdateOfAbsentIsNoOp ==
    [][op' = "update_model_transform" =>
          \A session_id \in SessionIds, model_id \in InstanceIds,
             a \in SessionUpdateArgs :
              (/\ ~Holds(session_id, model_id)
               /\ InSession(UpdateModelTransform(session_id, model_id,
                                                 a[1], a[2], a[3])))
                 => /\ ret' = FALSE
                    /\ active_sessions' = active_sessions
                    /\ heap' = heap]_vars

\* an update has returned false while a scene holds a model and was last
\* touched before the clock's present value
C15_Witness ==
    /\ op = "update_model_transform"
    /\ ret = FALSE
    /\ \E session_id \in DOMAIN active_sessions :
          /\ Len(active_sessions[session_id].models) > 0
          /\ active_sessions[session_id].updated_at < now

C17_SnapshotIsDeepCopy ==
    [][(~IsNone(saved) /\ op' # "save_session")
          => Deref(ValueOf(saved').models, heap')
                = Deref(ValueOf(saved).models, heap)]_vars

(***************************************************************************)
(* C19: no placed instance state is shared between scenes: whatever        *)
(* create_session, load_session, save_session, add and update calls came   *)
(* before, a transform update addressed to one scene_id does not change    *)
(* the snapshot of a scene registered under another scene_id.              *)
(***************************************************************************)
C19_ScenesShareNothing ==
    [][op' = "update_model_transform" =>
          \A session_id \in SessionIds, model_id \in InstanceIds,
             a \in SessionUpdateArgs :
              InSession(UpdateModelTransform(session_id, model_id,
                                             a[1], a[2], a[3]))
                 => \A s \in (DOMAIN active_sessions) \ {session_id} :
                        DerefScene(active_sessions'[s], heap')
                           = DerefScene(active_sessions[s], heap)]_vars

(***************************************************************************)
(* C18: a placed instance holds copies of its catalog entry's fields: an   *)
(* add gives the instance the entry's name, category, url and dimensions;  *)
(* add, remove and transform update leave every entry of the library       *)
(* (name, category, url, dimensions, transform) unchanged; and a change of *)
(* a catalog entry leaves the fields of the placed instances unchanged.    *)
(***************************************************************************)
C18_InstancesHoldCopies ==
    [][pc = "library" =>
          /\ res'.call \in {"add_model_to_session",
                            "remove_model_from_session",
                            "update_model_transform"}
                => LibraryView(res') = LibraryView(res)
          /\ res'.call = "add_model_to_session"
                => LET new_model == PlacedView(res')[Len(res'.placed)]
                       entry == LibraryView(res)[new_model.model_id[1]]
                   IN  /\ new_model.name = entry.name
                       /\ new_model.category = entry.category
                       /\ new_model.glb_url = entry.glb_url
                       /\ new_model.dimensions = entry.dimensions
          /\ res'.call = "change_entry"
                => PlacedView(res') = PlacedView(res)]_vars

\* the sofa entry's dimensions, transform and name were changed after a
\* sofa was placed, and the placed sofa has the values it was placed with
C18_Witness ==
    /\ pc = "library"
    /\ res.call = "change_entry"
    /\ LibraryView(res)["sofa_morden"].dimensions.width = 1
    /\ LibraryView(res)["sofa_morden"].transform.position.x = 5
    /\ LibraryView(res)["sofa_morden"].name = "Renamed"
    /\ Len(res.placed) > 0
    /\ PlacedView(res)[1].model_id[1] = "sofa_morden"
    /\ PlacedView(res)[1].dimensions.width = 200
    /\ PlacedView(res)[1].transform = DefaultTransform
    /\ PlacedView(res)[1].name = "Modern Sofa"

(***************************************************************************)
(* C20: delete_session(id) returns true exactly when a scene was           *)
(* registered under id and then removes that entry and no other; when id   *)
(* is not registered it returns false and leaves the registry as it was.   *)
(***************************************************************************)
C20_DeleteRemovesOnlyThat ==
    [][op' = "delete_session" =>
          \A session_id \in SessionIds :
              InSession(DeleteSession(session_id))
                 => /\ ret' = (session_id \in DOMAIN active_sessions)
                    /\ DOMAIN active_sessions'
                          = (DOMAIN active_sessions) \ {session_id}
                    /\ \A s \in DOMAIN active_sessions' :
                           DerefScene(active_sessions'[s], heap')
                              = DerefScene(active_sessions[s], heap)
                    /\ session_id \notin DOMAIN active_sessions
                          => /\ active_sessions' = active_sessions
                             /\ heap' = heap]_vars

\* a delete has returned true and the other session, which holds a model,
\* is still registered
C20_Witness ==
    /\ op = "delete_session"
    /\ ret = TRUE
    /\ \E s \in DOMAIN active_sessions : Len(active_sessions[s].models) > 0

(***************************************************************************)
(* C21: add_model_to_session with a session id that is not registered or   *)
(* with a model id that is not in the library returns its negative result  *)
(* (None, which ARService.add_model reports as a failure) and leaves every *)
(* registered scene, its models and its updated_at, as it was.             *)
(***************************************************************************)
C21_AddOfAbsentIsNoOp ==
    [][op' = "add_model_to_session" =>
          \A session_id \in SessionIds, model_id \in AddIds :
              (/\ (session_id \notin DOMAIN active_sessions
                     \/ model_id = "no_such_model")
               /\ InSession(AddModelToSession(session_id, model_id)))
                 => /\ ret' = None
                    /\ ~service_add_model(ret').success
                    /\ active_sessions' = active_sessions
                    /\ heap' = heap]_vars

\* an add has returned None while a scene holding a model whose transform
\* an update had changed was registered
C21_Witness ==
    /\ op = "add_model_to_session"
    /\ ret = None
    /\ \E s \in DOMAIN active_sessions :
          /\ Len(active_sessions[s].models) = 1
          /\ heap[active_sessions[s].models[1].transform] # DefaultTransform

(***************************************************************************)
(* C22: for every ARService operation, the result of a call that names a   *)
(* session, instance or catalog id that does not exist differs from the    *)
(* result of a call of the same operation with an empty id, whichever of   *)
(* the two calls is made first.                                            *)
(***************************************************************************)
C22_AbsenceDiffersFromMalformed ==
    [][(/\ op \in ServiceOps
        /\ op' = op
        /\ \/ res.empty /\ res'.absent
           \/ res.absent /\ res'.empty)
          => res'.result # res.result]_vars

(***************************************************************************)
(* C23: create_session with an empty room_type fails and registers no      *)
(* session: active_sessions is after the call what it was before it.       *)
(***************************************************************************)
C23_EmptyRoomTypeRegistersNothing ==
    [][op' = "create_session" =>
          \A design_data \in DesignPayloads :
              InSession(CreateSession("", design_data))
                 => active_sessions' = active_sessions]_vars

(***************************************************************************)
(* C24: update_model_transform is all or nothing: a call that raises or    *)
(* returns false leaves the transform of the instance and the updated_at   *)
(* of the scene as they were before it, and a call that returns true has   *)
(* applied every component it was given.                                   *)
(***************************************************************************)
C24_UpdateIsAtomic ==
    pc = "done" =>
        IF res.raised = "" /\ ret = TRUE
        THEN heap[1] = update_transform(DefaultTransform,
                                        dict_of(arg.position),
                                        dict_of(arg.rotation),
                                        dict_of(arg.scale))
        ELSE /\ heap[1] = DefaultTransform
             /\ active_sessions[1].updated_at = 0

(***************************************************************************)
(* C25: when add_model_to_session and remove_model_from_session of an      *)
(* instance other than the added one run in two threads on one scene, no   *)
(* update is lost: after both have returned, the added instance is in the  *)
(* scene's models and the removed one is not.                              *)
(***************************************************************************)
C25_NoLostUpdate ==
    (/\ BothDone
     /\ res.threads[1].call.name = "add_model_to_session"
     /\ res.threads[1].result = "id"
     /\ ValueOf(res.threads[1].model).model_id
           # res.threads[2].call.model_id)
       => /\ Holds(1, ValueOf(res.threads[1].model).model_id)
          /\ ~Holds(1, res.threads[2].call.model_id)

(***************************************************************************)
(* C26: when two delete_session calls for one registered id interleave,    *)
(* one returns true, the other returns false and neither raises; when      *)
(* create_session and delete_session of a registered id interleave, the    *)
(* created scene is registered and the deleted one is not.                 *)
(***************************************************************************)
C26_RegistryIsSafe ==
    BothDone =>
        /\ (/\ res.threads[1].call.name = "delete_session"
            /\ res.threads[1].call.session_id = 1
            /\ res.threads[2].call.session_id = 1)
              => {res.threads[1].result, res.threads[2].result}
                    = {"True", "False"}
        /\ (/\ res.threads[1].call.name = "create_session"
            /\ res.threads[2].call.session_id = 1)
              => /\ res.threads[2].result = "True"
                 /\ DOMAIN active_sessions
                       = {ValueOf(res.threads[1].scene).scene_id}

\* the instance ids of the additions no removal has taken, in the order
\* the additions were made
Surviving(added) ==
    LET There(a) == a.there
        kept == SelectSeq(added, There)
    IN  [i \in 1..Len(kept) |-> kept[i].model_id]

C28_SaveLoadRoundTrip ==
    pc = "done" =>
        /\ ret = res.scene.scene_id
        /\ ret \in DOMAIN active_sessions
        /\ LET loaded == DerefScene(active_sessions[ret], heap)
           IN  /\ loaded.scene_id = res.scene.scene_id
               /\ loaded.room_type = res.scene.room_type
               /\ loaded.models = res.scene.models
               /\ loaded.lighting = res.scene.lighting
               /\ loaded.environment = res.scene.environment

\* a bedroom holding a lamp and a sofa, both moved, was saved and loaded
C28_Witness ==
    /\ pc = "done"
    /\ op = "load_session"
    /\ res.scene.room_type = "Bedroom"
    /\ Len(active_sessions[1].models) = 2
    /\ active_sessions[1].models[1].model_id
          = InstanceId("modern_desk_lamp", 1)
    /\ active_sessions[1].models[2].model_id = InstanceId("sofa_morden", 1)
    /\ heap[active_sessions[1].models[1].transform].position.x = 5
    /\ heap[active_sessions[1].models[2].transform].scale.x = 5

(***************************************************************************)
(* C29: when load_session raises on session data with a model entry that   *)
(* lacks a key, or create_session raises while it populates the scene,     *)
(* active_sessions is exactly what it was before the call: the registered  *)
(* scene is as it was and no other scene is registered.                    *)
(***************************************************************************)
C29_FailedConstructionRegistersNothing ==
    (pc = "done" /\ res.raised # "")
       => /\ active_sessions = ConstructRegistry
          /\ heap = <<DefaultTransform>>

\* load_session has raised a KeyError on its second model entry, the data
\* naming the id of the registered scene
C29_Witness ==
    /\ pc = "done"
    /\ op = "load_session"
    /\ res.raised = "KeyError"
    /\ "scene_id" \in DOMAIN arg
    /\ arg.scene_id = 1
    /\ Len(arg.models) = 2
    /\ "model_id" \in DOMAIN arg.models[1]
    /\ "model_id" \notin DOMAIN arg.models[2]


\* the ids that were registered and have been deleted
Deleted == issued \ DOMAIN active_sessions

(***************************************************************************)
(* C30: a registered session stays registered, so that get_session returns *)
(* a scene, until a delete_session of its id returns true, and is gone     *)
(* after that: get_session gives None, add, remove and update on the id    *)
(* return their negative result, and only a load_session of data with      *)
(* that scene_id registers the id again.                                   *)
(***************************************************************************)
C30_RegisteredUntilDeleted ==
    [][/\ \A s \in DOMAIN active_sessions :
             s \notin DOMAIN active_sessions'
                => op' = "delete_session" /\ ret' = TRUE
       /\ op' = "delete_session"
             => \A s \in SessionIds :
                    (InSession(DeleteSession(s)) /\ ret' = TRUE)
                       => /\ ~IsNone(get_session(s))
                          /\ s \in Deleted'
       /\ \A s \in Deleted :
             /\ IsNone(get_session(s))
             /\ s \in DOMAIN active_sessions'
                   => op' = "load_session" /\ ret' = s
             /\ op' = "add_model_to_session"
                   => \A model_id \in AddIds :
                          InSession(AddModelToSession(s, model_id))
                             => ret' = None
             /\ op' = "remove_model_from_session"
                   => \A model_id \in InstanceIds :
                          InSession(RemoveModelFromSession(s, model_id))
                             => ret' = FALSE
             /\ op' = "update_model_transform"
                   => \A model_id \in InstanceIds, a \in SessionUpdateArgs :
                          InSession(UpdateModelTransform(s, model_id,
                                                         a[1], a[2], a[3]))
                             => ret' = FALSE]_vars

\* every id has been registered and deleted, and an add was then called
C30_Witness ==
    /\ issued = SessionIds
    /\ active_sessions = <<>>
    /\ op = "add_model_to_session"
    /\ ret = None
=============================================================================
